---------------------------- MODULE Spec2Model ----------------------------
(***************************************************************************)
(* A model of the DCC_CV calibration-certificate extractor                 *)
(* (src/src/dcc_cv: extractor.py, agent.py, models.py).                    *)
(*                                                                         *)
(* Text is a sequence of one-character strings.  The regular expressions   *)
(* of extractor.py are transcribed atom by atom and run by a small matcher  *)
(* that returns the match Python's re module returns, the one its          *)
(* backtracking search finds first (leftmost match, greedy and lazy        *)
(* quantifiers and ordered alternation in priority order, capture groups,  *)
(* IGNORECASE and MULTILINE).                                              *)
(***************************************************************************)
EXTENDS Integers, Sequences, FiniteSets, TLC

VARIABLES
    pc,             \* position of the operation under study
    raised,         \* the exception the operation ended with, if any
    text,           \* raw text handed to the extraction engine
    results,        \* list returned by extract_measurement_tables
    pattern_key,    \* extract_pattern: the field key asked for
    pattern_value,  \* extract_pattern: the value returned
    date_str,       \* parse_date: the string to parse
    written,        \* the date and format date_str was written from, if any
    parsed_date,    \* parse_date: the value returned
    certificate,    \* the CalibrationCertificate parsed or validated, if any
    issues,         \* list returned by validate_certificate
    world,          \* the files that exist, what the libraries read from them
    input_file,     \* the path of the source file being processed
    input_files,    \* batch_process: the list of input paths
    output_dir,     \* batch_process: the directory for the output files
    lab_info,       \* batch_process: the laboratory passed by the caller, if any
    include_raw_text, \* batch_process: whether the raw text goes into the XML
    batch_index,    \* batch_process: how many inputs the loop has been through
    batch_results,  \* batch_process: the mapping from input path to outcome
    disk,           \* the directories made and the files written
    processed,      \* bookkeeping: the calls of process so far, their outcome
    clock,          \* the day datetime.now() showed last
    lookup_symbol,  \* get_unit: the symbol looked up
    lookup_unit,    \* get_unit: the MeasurementUnit returned
    lookup_si,      \* the token the serializer writes for the symbol
    common_units,   \* models.py's dict COMMON_UNITS as the calls leave it
    lab_name_arg,   \* parse_certificate: the laboratory name the caller passes
    returned_xml,    \* process: the XML returned
    library_calls,  \* bookkeeping: the library calls made to acquire the text
    cli_args,       \* main: the parsed command line
    cli_dirs,       \* main: the directories of the file system, each with its entries
    exit_code,      \* main: the value returned
    agent,          \* the DCCAgent: the fields its constructor sets
    validate_calls, \* bookkeeping: the calls of validate_certificate made
    jobs,           \* the documents in work on one agent, each with the locals of its call
    mv_kwargs,      \* MeasuredValue(...): the keyword arguments of a caller
    mv_built,       \* the MeasuredValue built
    mv_element,     \* _create_value_element: the element made of it
    xml_root,       \* generate: the root element returned
    customer_info,  \* process: the customer passed by the caller, if any
    lab_kwargs,     \* create_lab_info: the keyword arguments of the caller
    lab_created,    \* create_lab_info: the Organization returned
    env_conditions  \* extract_environmental_conditions: the value returned

meas_vars == <<results>>
pattern_vars == <<pattern_key, pattern_value>>
date_vars == <<date_str, written, parsed_date>>
cert_vars == <<certificate, issues>>
file_vars == <<world, input_file>>
batch_vars == <<input_files, output_dir, lab_info, include_raw_text, batch_index,
                batch_results, disk, processed, clock>>
unit_vars == <<lookup_symbol, lookup_unit, lookup_si, common_units>>
caller_vars == <<lab_name_arg>>
process_vars == <<returned_xml, library_calls>>
cli_vars == <<cli_args, cli_dirs, exit_code>>
agent_vars == <<agent, validate_calls>>
job_vars == <<jobs>>
value_vars == <<mv_kwargs, mv_built, mv_element>>
gen_vars == <<xml_root>>
api_vars == <<customer_info, lab_kwargs, lab_created, env_conditions>>
more_vars == <<cli_vars, agent_vars, job_vars, value_vars, gen_vars, api_vars>>
extra_vars == <<unit_vars, caller_vars, process_vars, more_vars>>
vars == <<pc, raised, text, meas_vars, pattern_vars, date_vars, cert_vars, file_vars,
          batch_vars, extra_vars>>

\* Optional[T]: a sequence holding no element (None) or one
None == <<>>
Some(x) == <<x>>
Get(o) == o[1]

(***************************************************************************)
(* Characters and strings                                                  *)
(***************************************************************************)
UpperChars == <<"A","B","C","D","E","F","G","H","I","J","K","L","M",
                "N","O","P","Q","R","S","T","U","V","W","X","Y","Z">>
LowerChars == <<"a","b","c","d","e","f","g","h","i","j","k","l","m",
                "n","o","p","q","r","s","t","u","v","w","x","y","z">>
Upper == {UpperChars[i] : i \in DOMAIN UpperChars}
Lower == {LowerChars[i] : i \in DOMAIN LowerChars}
Digit == {"0","1","2","3","4","5","6","7","8","9"}
Space == {" ", "\t", "\n", "\r", "\f"}

ToLower(c) ==
    IF c \in Upper THEN LowerChars[CHOOSE i \in DOMAIN UpperChars : UpperChars[i] = c]
    ELSE c

ToUpper(c) ==
    IF c \in Lower THEN UpperChars[CHOOSE i \in DOMAIN LowerChars : LowerChars[i] = c]
    ELSE c

RECURSIVE Flatten(_)
Flatten(ss) == IF ss = <<>> THEN <<>> ELSE Head(ss) \o Flatten(Tail(ss))

\* str.strip(): surrounding whitespace removed
RECURSIVE LStrip(_)
LStrip(s) == IF s # <<>> /\ Head(s) \in Space THEN LStrip(Tail(s)) ELSE s

RECURSIVE RStrip(_)
RStrip(s) ==
    IF s # <<>> /\ s[Len(s)] \in Space THEN RStrip(SubSeq(s, 1, Len(s) - 1)) ELSE s

Strip(s) == RStrip(LStrip(s))

\* str.split('\n')[-1]: the text after the last newline
RECURSIVE LastLine(_)
LastLine(s) ==
    IF \E i \in DOMAIN s : s[i] = "\n"
    THEN LastLine(SubSeq(s, (CHOOSE i \in DOMAIN s : s[i] = "\n") + 1, Len(s)))
    ELSE s

\* str.replace(',', '.')
ReplaceComma(s) == [i \in DOMAIN s |-> IF s[i] = "," THEN "." ELSE s[i]]

StartsWith(s, p) == Len(s) >= Len(p) /\ SubSeq(s, 1, Len(p)) = p

(***************************************************************************)
(* Regular expressions: a pattern is a sequence of atoms                   *)
(***************************************************************************)
\* a quantifier's max below 0 means no upper limit (+ and *)
Cls(S, lo, hi)     == [t |-> "cls", s |-> S, neg |-> FALSE, min |-> lo, max |-> hi, lazy |-> FALSE]
NotCls(S, lo, hi)  == [t |-> "cls", s |-> S, neg |-> TRUE,  min |-> lo, max |-> hi, lazy |-> FALSE]
Lazy(a)            == [a EXCEPT !.lazy = TRUE]
Ch(c)              == Cls({c}, 1, 1)
Lit(w)             == <<[t |-> "lit", w |-> w]>>
Open(g)            == [t |-> "open", g |-> g]
Close(g)           == [t |-> "close", g |-> g]
Group(g, re)       == <<Open(g)>> \o re \o <<Close(g)>>
Alt(as)            == [t |-> "alt", alts |-> as]
Opt(re)            == Alt(<<re, <<>>>>)
Bol                == [t |-> "bol"]
Eol                == [t |-> "eol"]
NotAhead(S)        == [t |-> "nla", s |-> S]

Plus(S)  == Cls(S, 1, -1)
Star(S)  == Cls(S, 0, -1)
WsStar   == Star(Space)
WsPlus   == Plus(Space)

NoFlags   == [ic |-> FALSE, ml |-> FALSE]
MultiLine == [ic |-> FALSE, ml |-> TRUE]
IgnoreCase == [ic |-> TRUE, ml |-> FALSE]
IgnoreCaseMultiLine == [ic |-> TRUE, ml |-> TRUE]

MaxGroups == 6
NoMatch == [ok |-> FALSE]

InCls(a, c, fl) ==
    LET hit == c \in a.s \/ (fl.ic /\ (ToLower(c) \in a.s \/ ToUpper(c) \in a.s))
    IN  IF a.neg THEN ~hit ELSE hit

\* the first of the positions stops, the position after the end of s when
\* there is none
FirstStop(stops, s) ==
    IF stops = {} THEN Len(s) + 1 ELSE CHOOSE j \in stops : \A k \in stops : j <= k

AtMost(n, max) == IF max >= 0 /\ n > max THEN max ELSE n

\* the last position a run of class a from position pos can reach
RunLimit(a, s, pos) ==
    IF a.max >= 0 /\ pos + a.max - 1 < Len(s) THEN pos + a.max - 1 ELSE Len(s)

\* the longest run of characters of class a from position pos, at most a.max
Run(a, s, pos, fl) ==
    AtMost(FirstStop({j \in pos..RunLimit(a, s, pos) : ~InCls(a, s[j], fl)}, s) - pos,
           a.max)

\* the characters from pos on are those of the literal text w
LitFits(w, s, pos, fl) ==
    pos + Len(w) - 1 <= Len(s) /\ \A i \in DOMAIN w : InCls(Ch(w[i]), s[pos + i - 1], fl)

\* the zero-width assertion a holds at position pos
Holds(a, s, pos, fl) ==
    CASE a.t = "bol" -> pos = 1 \/ (fl.ml /\ s[pos - 1] = "\n")
      [] a.t = "eol" -> \/ pos = Len(s) + 1
                        \/ (fl.ml /\ s[pos] = "\n")
                        \/ (pos = Len(s) /\ s[pos] = "\n")
      [] a.t = "nla" -> ~(pos <= Len(s) /\ s[pos] \in a.s)

Positions(s) == 1..(Len(s) + 1)

Half(lo, hi) == (lo + hi) \div 2

Largest(ns) == CHOOSE n \in ns : \A o \in ns : o <= n
Smallest(ns) == CHOOSE n \in ns : \A o \in ns : n <= o

RECURSIVE Reach(_, _, _, _, _, _)

\* the positions after the atom a, taken at position pos in any of its ways
AtomEnds(a, s, pos, fl) ==
    CASE a.t = "lit" -> IF LitFits(a.w, s, pos, fl) THEN {pos + Len(a.w)} ELSE {}
      [] a.t = "cls" -> {pos + n : n \in a.min..Run(a, s, pos, fl)}
      [] a.t \in {"open", "close"} -> {pos}
      [] a.t = "alt" ->
            UNION {Reach(a.alts[k], 1, Len(a.alts[k]), {pos}, s, fl) : k \in DOMAIN a.alts}
      [] OTHER -> IF Holds(a, s, pos, fl) THEN {pos} ELSE {}

\* the positions after the atoms lo..hi of re, taken from any position of from
Reach(re, lo, hi, from, s, fl) ==
    CASE from = {} \/ lo > hi -> from
      [] lo = hi -> UNION {AtomEnds(re[lo], s, pos, fl) : pos \in from}
      [] OTHER -> Reach(re, Half(lo, hi) + 1, hi,
                        Reach(re, lo, Half(lo, hi), from, s, fl), s, fl)

\* the atoms lo..hi of re taken from pos can end at a position of targets
CanEnd(re, lo, hi, pos, targets, s, fl) ==
    Reach(re, lo, hi, {pos}, s, fl) \cap targets # {}

\* the path that ends at position q, where the events ev happened on the way
Path(q, ev) == [ok |-> TRUE, end |-> q, ev |-> ev]

\* the path l, then the path r from its end
Joined(l, r) == IF l.ok /\ r.ok THEN Path(r.end, l.ev \o r.ev) ELSE NoMatch

\* the count the quantified class a takes of the counts ns that lead on
CountTaken(a, ns) == IF a.lazy THEN Smallest(ns) ELSE Largest(ns)

ClsPath(a, pos, ns) == IF ns = {} THEN NoMatch ELSE Path(pos + CountTaken(a, ns), <<>>)

\* the first alternative, in the order written, that leads on
FirstAlt(ks) == Smallest(ks)

RECURSIVE Best(_, _, _, _, _, _, _)

\* the path the backtracking search of re finds first through the atoms
\* lo..hi from position pos to a position of targets, when there is a path:
\* an earlier atom's choice is settled before a later one's, a quantified
\* class takes the most it can (the fewest when lazy) and an alternation its
\* first alternative, as long as the atoms after it can still reach targets
AltPath(a, ks, pos, targets, s, fl) ==
    IF ks = {} THEN NoMatch
    ELSE Best(a.alts[FirstAlt(ks)], 1, Len(a.alts[FirstAlt(ks)]), pos, targets, s, fl)

AtomPath(a, pos, targets, s, fl) ==
    CASE a.t = "lit" ->
            IF LitFits(a.w, s, pos, fl) /\ pos + Len(a.w) \in targets
            THEN Path(pos + Len(a.w), <<>>) ELSE NoMatch
      [] a.t = "cls" ->
            ClsPath(a, pos, {n \in a.min..Run(a, s, pos, fl) : pos + n \in targets})
      [] a.t \in {"open", "close"} ->
            IF pos \in targets THEN Path(pos, <<[t |-> a.t, g |-> a.g, pos |-> pos]>>)
            ELSE NoMatch
      [] a.t = "alt" ->
            AltPath(a, {k \in DOMAIN a.alts :
                          CanEnd(a.alts[k], 1, Len(a.alts[k]), pos, targets, s, fl)},
                    pos, targets, s, fl)
      [] OTHER -> IF Holds(a, s, pos, fl) /\ pos \in targets THEN Path(pos, <<>>)
                  ELSE NoMatch

\* the second half of a path whose first half is l
Onwards(l, re, lo, hi, targets, s, fl) ==
    IF l.ok THEN Joined(l, Best(re, lo, hi, l.end, targets, s, fl)) ELSE NoMatch

\* the positions mids between the two halves of lo..hi that lead on to
\* targets; when a path to targets exists and the first half ends at one
\* position only, that position is the one
LeadingOn(mids, re, lo, hi, targets, s, fl) ==
    IF Cardinality(mids) = 1 THEN mids
    ELSE {m \in mids : CanEnd(re, lo, hi, m, targets, s, fl)}

Between(re, lo, hi, pos, targets, s, fl) ==
    LeadingOn(Reach(re, lo, Half(lo, hi), {pos}, s, fl),
              re, Half(lo, hi) + 1, hi, targets, s, fl)

Best(re, lo, hi, pos, targets, s, fl) ==
    CASE targets = {} -> NoMatch
      [] lo > hi -> IF pos \in targets THEN Path(pos, <<>>) ELSE NoMatch
      [] lo = hi -> AtomPath(re[lo], pos, targets, s, fl)
      [] OTHER ->
            Onwards(Best(re, lo, Half(lo, hi), pos,
                         Between(re, lo, hi, pos, targets, s, fl), s, fl),
                    re, Half(lo, hi) + 1, hi, targets, s, fl)

\* a group's span: from where it was opened to where it was closed
SpanOf(ev, g) ==
    IF \E i \in DOMAIN ev : ev[i].t = "close" /\ ev[i].g = g
    THEN <<ev[CHOOSE i \in DOMAIN ev : ev[i].t = "open" /\ ev[i].g = g].pos,
           ev[CHOOSE i \in DOMAIN ev : ev[i].t = "close" /\ ev[i].g = g].pos>>
    ELSE <<>>

Matched(r) ==
    IF r.ok THEN [ok |-> TRUE, end |-> r.end, caps |-> [g \in 1..MaxGroups |-> SpanOf(r.ev, g)]]
    ELSE NoMatch

\* re has a match at position pos
MatchesAt(re, s, pos, fl) ==
    \/ re = <<>>
    \/ /\ AtomEnds(re[1], s, pos, fl) # {}
       /\ CanEnd(re, 1, Len(re), pos, Positions(s), s, fl)

\* the match of the whole of re at position pos (the next character is s[pos])
MatchAt(re, s, pos, fl) ==
    IF MatchesAt(re, s, pos, fl)
    THEN Matched(Best(re, 1, Len(re), pos, Positions(s), s, fl))
    ELSE NoMatch

\* the match r found at position p
MatchFound(p, r) == [ok |-> TRUE, start |-> p, end |-> r.end, caps |-> r.caps]

Leftmost(hits) == CHOOSE q \in hits : \A o \in hits : q <= o

\* the match at the leftmost of the positions hits that have one
SearchAmong(hits, re, s, fl) ==
    IF hits = {} THEN NoMatch
    ELSE MatchFound(Leftmost(hits), MatchAt(re, s, Leftmost(hits), fl))

\* re.search from position from: the match at the leftmost position that has one
SearchFrom(re, s, from, fl) ==
    SearchAmong({p \in from..(Len(s) + 1) : MatchesAt(re, s, p, fl)}, re, s, fl)

Search(re, s, fl) == SearchFrom(re, s, 1, fl)

\* re.finditer: the non-overlapping matches from left to right
RECURSIVE FindIterFrom(_, _, _, _)
\* the match m, when there is one, and the matches after it
MatchesFrom(m, re, s, fl) ==
    IF ~m.ok THEN <<>>
    ELSE <<m>> \o FindIterFrom(re, s, IF m.end > m.start THEN m.end ELSE m.end + 1, fl)

FindIterFrom(re, s, from, fl) == MatchesFrom(SearchFrom(re, s, from, fl), re, s, fl)

FindIter(re, s, fl) == FindIterFrom(re, s, 1, fl)

\* match.group(g): the captured text, or None for a group that took no part
GroupOf(m, s, g) ==
    IF m.caps[g] = <<>> THEN None ELSE Some(SubSeq(s, m.caps[g][1], m.caps[g][2] - 1))


(***************************************************************************)
(* models.py: the unit registry                                            *)
(***************************************************************************)
\* si_base is written with ^ for superscript exponents; the one-character
\* symbol of the ohm (U+03A9) is written as the single token "Ohm"
Unit(sym, nm, si) == [symbol |-> sym, name |-> Some(nm), si_base |-> Some(si)]
UnitNoSi(sym, nm)  == [symbol |-> sym, name |-> Some(nm), si_base |-> None]
MeasurementUnit(sym, nm, si) == [symbol |-> sym, name |-> nm, si_base |-> si]

COMMON_UNITS == {
    Unit(<<"N">>, "newton", "kg·m/s²"),
    Unit(<<"k","N">>, "kilonewton", "10^3·kg·m/s²"),
    Unit(<<"M","N">>, "meganewton", "10^6·kg·m/s²"),
    Unit(<<"°","C">>, "degree Celsius", "K"),
    Unit(<<"K">>, "kelvin", "K"),
    UnitNoSi(<<"°","F">>, "degree Fahrenheit"),
    Unit(<<"P","a">>, "pascal", "kg/(m·s²)"),
    Unit(<<"k","P","a">>, "kilopascal", "10^3·kg/(m·s²)"),
    Unit(<<"M","P","a">>, "megapascal", "10^6·kg/(m·s²)"),
    Unit(<<"b","a","r">>, "bar", "10^5·kg/(m·s²)"),
    Unit(<<"m","b","a","r">>, "millibar", "10^2·kg/(m·s²)"),
    Unit(<<"m">>, "meter", "m"),
    Unit(<<"m","m">>, "millimeter", "10^-3·m"),
    Unit(<<"µ","m">>, "micrometer", "10^-6·m"),
    Unit(<<"n","m">>, "nanometer", "10^-9·m"),
    Unit(<<"k","g">>, "kilogram", "kg"),
    Unit(<<"g">>, "gram", "10^-3·kg"),
    Unit(<<"m","g">>, "milligram", "10^-6·kg"),
    Unit(<<"V">>, "volt", "kg·m²/(A·s³)"),
    Unit(<<"m","V">>, "millivolt", "10^-3·kg·m²/(A·s³)"),
    Unit(<<"A">>, "ampere", "A"),
    Unit(<<"m","A">>, "milliampere", "10^-3·A"),
    Unit(<<"Ohm">>, "ohm", "kg·m²/(A²·s³)"),
    Unit(<<"s">>, "second", "s"),
    Unit(<<"m","s">>, "millisecond", "10^-3·s"),
    Unit(<<"m","i","n">>, "minute", "60·s"),
    Unit(<<"h">>, "hour", "3600·s"),
    Unit(<<"H","z">>, "hertz", "s^-1"),
    Unit(<<"k","H","z">>, "kilohertz", "10^3·s^-1"),
    Unit(<<"M","H","z">>, "megahertz", "10^6·s^-1"),
    UnitNoSi(<<"%">>, "percent"),
    UnitNoSi(<<"p","p","m">>, "parts per million"),
    UnitNoSi(<<"%","r","h">>, "percent relative humidity") }

\* the call of a plausible bug: an unknown symbol's generic unit is stored
\* in the table
get_unit_call_caching(table, symbol) ==
    IF \E u \in table : u.symbol = symbol
    THEN [table |-> table, unit |-> CHOOSE u \in table : u.symbol = symbol]
    ELSE [table |-> table \cup {MeasurementUnit(symbol, None, None)},
          unit |-> MeasurementUnit(symbol, None, None)]

\* get_unit(symbol) run on the dict table: the unit returned and the dict
\* after the call ("in" and indexing read the dict only)
get_unit_call(table, symbol) ==
    IF \E u \in table : u.symbol = symbol
    THEN [table |-> table, unit |-> CHOOSE u \in table : u.symbol = symbol]
    ELSE [table |-> table, unit |-> MeasurementUnit(symbol, None, None)]

\* the unit get_unit returns, the dict being COMMON_UNITS
get_unit(symbol) == get_unit_call(COMMON_UNITS, symbol).unit

(***************************************************************************)
(* Exceptions: an operation that can raise returns Ok(value) or Raise(e)   *)
(***************************************************************************)
Ok(v) == [raised |-> None, value |-> v]
Raise(ty, m) == [raised |-> Some([type |-> ty, msg |-> m]), value |-> None]
IsOk(r) == r.raised = None

(***************************************************************************)
(* float(): the characters reaching it are digits and dots only            *)
(***************************************************************************)
RECURSIVE DropLeadingZeros(_)
DropLeadingZeros(d) ==
    IF d # <<>> /\ Head(d) = "0" THEN DropLeadingZeros(Tail(d)) ELSE d

RECURSIVE DropTrailingZeros(_)
DropTrailingZeros(d) ==
    IF d # <<>> /\ d[Len(d)] = "0" THEN DropTrailingZeros(SubSeq(d, 1, Len(d) - 1)) ELSE d

\* the number a decimal literal denotes: its integer digits without leading
\* zeros and its fraction digits without trailing zeros; ValueError when the
\* literal has no digit or more than one dot
float(str) ==
    LET dots == {i \in DOMAIN str : str[i] = "."}
    IN  IF Cardinality(dots) > 1 \/ ~(\E i \in DOMAIN str : str[i] \in Digit)
           \/ (\E i \in DOMAIN str : str[i] \notin Digit \cup {"."})
        THEN Raise("ValueError", <<>>)
        ELSE LET d == IF dots = {} THEN Len(str) + 1 ELSE CHOOSE i \in dots : TRUE
             IN  Ok([int  |-> DropLeadingZeros(SubSeq(str, 1, d - 1)),
                     frac |-> DropTrailingZeros(SubSeq(str, d + 1, Len(str)))])

(***************************************************************************)
(* extractor.py: the measurement patterns                                  *)
(***************************************************************************)
Letter   == Upper \cup Lower
NumChar  == Digit \cup {".", ","}
SepChar  == {"|", ":", "\t"}
UnitChar == Letter \cup {"°", "%"}

\* ^([^|:\t]+?)\s*[|:\t]\s*([\d.,]+)\s*([A-Za-z°%]+)?\s*[|:\t]?\s*([\d.,]*)
\*  \s*([A-Za-z°%]*)?\s*[|:\t]?\s*([\d.,]*)
measurement_pattern ==
    <<Bol>> \o Group(1, <<Lazy(NotCls(SepChar, 1, -1))>>)
    \o <<WsStar, Cls(SepChar, 1, 1), WsStar>> \o Group(2, <<Plus(NumChar)>>)
    \o <<WsStar, Opt(Group(3, <<Plus(UnitChar)>>))>>
    \o <<WsStar, Cls(SepChar, 0, 1), WsStar>> \o Group(4, <<Star(NumChar)>>)
    \o <<WsStar, Opt(Group(5, <<Star(UnitChar)>>))>>
    \o <<WsStar, Cls(SepChar, 0, 1), WsStar>> \o Group(6, <<Star(NumChar)>>)

\* ([\d.,]+)\s*  followed by the unit token
UnitPrefix == Group(1, <<Plus(NumChar)>>) \o <<WsStar>>
\* ([\d.,]+)\s*(tok)
UnitGrouped(tok, sym) == [re |-> UnitPrefix \o Group(2, Lit(tok)), unit |-> sym]
\* ([\d.,]+)\s*tok(?![a-zA-Z])
UnitBare(tok, sym) == [re |-> UnitPrefix \o Lit(tok) \o <<NotAhead(Letter)>>, unit |-> sym]

UNIT_PATTERNS == <<
    UnitGrouped(<<"k","N">>, <<"k","N">>),
    UnitGrouped(<<"M","N">>, <<"M","N">>),
    UnitBare(<<"N">>, <<"N">>),
    [re |-> UnitPrefix \o Lit(<<"°","C">>), unit |-> <<"°","C">>],
    UnitBare(<<"K">>, <<"K">>),
    UnitGrouped(<<"M","P","a">>, <<"M","P","a">>),
    UnitGrouped(<<"k","P","a">>, <<"k","P","a">>),
    [re |-> UnitPrefix \o Group(2, Lit(<<"P","a">>)) \o <<NotAhead(Letter)>>,
     unit |-> <<"P","a">>],
    UnitGrouped(<<"b","a","r">>, <<"b","a","r">>),
    UnitGrouped(<<"m","b","a","r">>, <<"m","b","a","r">>),
    UnitGrouped(<<"m","m">>, <<"m","m">>),
    [re |-> UnitPrefix \o Group(2, <<Alt(<<Lit(<<"µ","m">>), Lit(<<"u","m">>)>>)>>),
     unit |-> <<"µ","m">>],
    UnitBare(<<"m">>, <<"m">>),
    UnitGrouped(<<"k","g">>, <<"k","g">>),
    UnitBare(<<"g">>, <<"g">>),
    UnitGrouped(<<"m","g">>, <<"m","g">>),
    UnitGrouped(<<"m","V">>, <<"m","V">>),
    UnitBare(<<"V">>, <<"V">>),
    UnitGrouped(<<"m","A">>, <<"m","A">>),
    UnitBare(<<"A">>, <<"A">>),
    [re |-> UnitPrefix \o <<Ch("%"), WsStar, Alt(<<Lit(<<"r","h">>), Lit(<<"R","H">>)>>)>>,
     unit |-> <<"%","r","h">>],
    [re |-> UnitPrefix \o <<Ch("%")>>, unit |-> <<"%">>] >>

(***************************************************************************)
(* extractor.py: PATTERNS, each regular expression under its source text   *)
(***************************************************************************)
\* [:.]?
LabelSep == Cls({":", "."}, 0, 1)
\* [A-Z0-9\-/]+
IdToken == <<Plus(Upper \cup Digit \cup {"-", "/"})>>
\* \d{1,2}[./\-]\d{1,2}[./\-]\d{2,4}
DateToken ==
    <<Cls(Digit, 1, 2), Cls({".", "/", "-"}, 1, 1), Cls(Digit, 1, 2),
      Cls({".", "/", "-"}, 1, 1), Cls(Digit, 2, 4)>>
\* (?:\n|$|,)
FieldEnd == <<Alt(<<Lit(<<"\n">>), <<Eol>>, Lit(<<",">>)>>)>>
\* hPa|mbar|Pa|kPa
PressureUnit ==
    <<Alt(<<Lit(<<"h","P","a">>), Lit(<<"m","b","a","r">>), Lit(<<"P","a">>),
            Lit(<<"k","P","a">>)>>)>>

\* r"[Cc]ertificate\s*(?:[Nn]o\.?|[Nn]umber)\s*[:.]?\s*([A-Z0-9\-/]+)"
certificate_number_1 ==
    <<Cls({"C", "c"}, 1, 1)>> \o Lit(<<"e","r","t","i","f","i","c","a","t","e">>) \o
    <<WsStar, Cls({"N", "n"}, 1, 1), Alt(<<Lit(<<"o">>) \o <<Cls({"."}, 0, 1)>>,
          Lit(<<"u","m","b","e","r">>)>>), WsStar, LabelSep, WsStar>> \o
    Group(1, IdToken)

\* r"[Kk]alibrierzertifikat\s*(?:[Nn]r\.?)\s*[:.]?\s*([A-Z0-9\-/]+)"
certificate_number_2 ==
    <<Cls({"K", "k"}, 1, 1)>> \o
    Lit(<<"a","l","i","b","r","i","e","r","z","e","r","t","i","f","i","k","a","t">>) \o
    <<WsStar, Cls({"N", "n"}, 1, 1)>> \o Lit(<<"r">>) \o
    <<Cls({"."}, 0, 1), WsStar, LabelSep, WsStar>> \o
    Group(1, IdToken)

\* r"[Cc]ertificate\s*[Ii][Dd]\s*[:.]?\s*([A-Z0-9\-/]+)"
certificate_number_3 ==
    <<Cls({"C", "c"}, 1, 1)>> \o Lit(<<"e","r","t","i","f","i","c","a","t","e">>) \o
    <<WsStar, Cls({"I", "i"}, 1, 1), Cls({"D", "d"}, 1, 1), WsStar, LabelSep, WsStar>> \o
    Group(1, IdToken)

\* r"[Cc]alibration\s*[Dd]ate\s*[:.]?\s*(\d{1,2}[./\-]\d{1,2}[./\-]\d{2,4})"
calibration_date_1 ==
    <<Cls({"C", "c"}, 1, 1)>> \o Lit(<<"a","l","i","b","r","a","t","i","o","n">>) \o
    <<WsStar, Cls({"D", "d"}, 1, 1)>> \o Lit(<<"a","t","e">>) \o
    <<WsStar, LabelSep, WsStar>> \o
    Group(1, DateToken)

\* r"[Dd]ate\s+of\s+[Cc]alibration\s*[:.]?\s*(\d{1,2}[./\-]\d{1,2}[./\-]\d{2,4})"
calibration_date_2 ==
    <<Cls({"D", "d"}, 1, 1)>> \o Lit(<<"a","t","e">>) \o <<WsPlus>> \o
    Lit(<<"o","f">>) \o <<WsPlus, Cls({"C", "c"}, 1, 1)>> \o
    Lit(<<"a","l","i","b","r","a","t","i","o","n">>) \o
    <<WsStar, LabelSep, WsStar>> \o
    Group(1, DateToken)

\* r"[Kk]alibrierdatum\s*[:.]?\s*(\d{1,2}[./\-]\d{1,2}[./\-]\d{2,4})"
calibration_date_3 ==
    <<Cls({"K", "k"}, 1, 1)>> \o
    Lit(<<"a","l","i","b","r","i","e","r","d","a","t","u","m">>) \o
    <<WsStar, LabelSep, WsStar>> \o
    Group(1, DateToken)

\* r"[Dd]ate\s+of\s+[Ii]ssue\s*[:.]?\s*(\d{1,2}[./\-]\d{1,2}[./\-]\d{2,4})"
certificate_date_1 ==
    <<Cls({"D", "d"}, 1, 1)>> \o Lit(<<"a","t","e">>) \o <<WsPlus>> \o
    Lit(<<"o","f">>) \o <<WsPlus, Cls({"I", "i"}, 1, 1)>> \o
    Lit(<<"s","s","u","e">>) \o
    <<WsStar, LabelSep, WsStar>> \o
    Group(1, DateToken)

\* r"[Ii]ssue\s*[Dd]ate\s*[:.]?\s*(\d{1,2}[./\-]\d{1,2}[./\-]\d{2,4})"
certificate_date_2 ==
    <<Cls({"I", "i"}, 1, 1)>> \o Lit(<<"s","s","u","e">>) \o
    <<WsStar, Cls({"D", "d"}, 1, 1)>> \o Lit(<<"a","t","e">>) \o
    <<WsStar, LabelSep, WsStar>> \o
    Group(1, DateToken)

\* r"[Aa]usstellungsdatum\s*[:.]?\s*(\d{1,2}[./\-]\d{1,2}[./\-]\d{2,4})"
certificate_date_3 ==
    <<Cls({"A", "a"}, 1, 1)>> \o
    Lit(<<"u","s","s","t","e","l","l","u","n","g","s","d","a","t","u","m">>) \o
    <<WsStar, LabelSep, WsStar>> \o
    Group(1, DateToken)

\* r"[Ss]erial\s*(?:[Nn]o\.?|[Nn]umber)\s*[:.]?\s*([A-Z0-9\-/]+)"
serial_number_1 ==
    <<Cls({"S", "s"}, 1, 1)>> \o Lit(<<"e","r","i","a","l">>) \o
    <<WsStar, Cls({"N", "n"}, 1, 1), Alt(<<Lit(<<"o">>) \o <<Cls({"."}, 0, 1)>>,
          Lit(<<"u","m","b","e","r">>)>>), WsStar, LabelSep, WsStar>> \o
    Group(1, IdToken)

\* r"[Ss]erien[Nn]ummer\s*[:.]?\s*([A-Z0-9\-/]+)"
serial_number_2 ==
    <<Cls({"S", "s"}, 1, 1)>> \o Lit(<<"e","r","i","e","n">>) \o
    <<Cls({"N", "n"}, 1, 1)>> \o Lit(<<"u","m","m","e","r">>) \o
    <<WsStar, LabelSep, WsStar>> \o
    Group(1, IdToken)

\* r"S/N\s*[:.]?\s*([A-Z0-9\-/]+)"
serial_number_3 ==
    Lit(<<"S","/","N">>) \o
    <<WsStar, LabelSep, WsStar>> \o
    Group(1, IdToken)

\* r"[Mm]anufacturer\s*[:.]?\s*([A-Za-z0-9\s&]+?)(?:\n|$|,)"
manufacturer_1 ==
    <<Cls({"M", "m"}, 1, 1)>> \o
    Lit(<<"a","n","u","f","a","c","t","u","r","e","r">>) \o
    <<WsStar, LabelSep, WsStar>> \o
    Group(1, <<Lazy(Cls(Upper \cup Lower \cup Digit \cup Space \cup {"&"}, 1, -1))>>) \o
    FieldEnd

\* r"[Hh]ersteller\s*[:.]?\s*([A-Za-z0-9\s&]+?)(?:\n|$|,)"
manufacturer_2 ==
    <<Cls({"H", "h"}, 1, 1)>> \o Lit(<<"e","r","s","t","e","l","l","e","r">>) \o
    <<WsStar, LabelSep, WsStar>> \o
    Group(1, <<Lazy(Cls(Upper \cup Lower \cup Digit \cup Space \cup {"&"}, 1, -1))>>) \o
    FieldEnd

\* r"[Mm]ade\s+[Bb]y\s*[:.]?\s*([A-Za-z0-9\s&]+?)(?:\n|$|,)"
manufacturer_3 ==
    <<Cls({"M", "m"}, 1, 1)>> \o Lit(<<"a","d","e">>) \o
    <<WsPlus, Cls({"B", "b"}, 1, 1)>> \o Lit(<<"y">>) \o
    <<WsStar, LabelSep, WsStar>> \o
    Group(1, <<Lazy(Cls(Upper \cup Lower \cup Digit \cup Space \cup {"&"}, 1, -1))>>) \o
    FieldEnd

\* r"[Mm]odel\s*[:.]?\s*([A-Za-z0-9\-/\s]+?)(?:\n|$|,)"
model_1 ==
    <<Cls({"M", "m"}, 1, 1)>> \o Lit(<<"o","d","e","l">>) \o
    <<WsStar, LabelSep, WsStar>> \o
    Group(1, <<Lazy(Cls(Upper \cup Lower \cup Digit \cup Space \cup {"-", "/"}, 1, -1))>>) \o
    FieldEnd

\* r"[Tt]ype\s*[:.]?\s*([A-Za-z0-9\-/\s]+?)(?:\n|$|,)"
model_2 ==
    <<Cls({"T", "t"}, 1, 1)>> \o Lit(<<"y","p","e">>) \o
    <<WsStar, LabelSep, WsStar>> \o
    Group(1, <<Lazy(Cls(Upper \cup Lower \cup Digit \cup Space \cup {"-", "/"}, 1, -1))>>) \o
    FieldEnd

\* r"[Mm]odell\s*[:.]?\s*([A-Za-z0-9\-/\s]+?)(?:\n|$|,)"
model_3 ==
    <<Cls({"M", "m"}, 1, 1)>> \o Lit(<<"o","d","e","l","l">>) \o
    <<WsStar, LabelSep, WsStar>> \o
    Group(1, <<Lazy(Cls(Upper \cup Lower \cup Digit \cup Space \cup {"-", "/"}, 1, -1))>>) \o
    FieldEnd

\* r"[Tt]emperature\s*[:.]?\s*([\d.,]+)\s*°?C"
temperature_1 ==
    <<Cls({"T", "t"}, 1, 1)>> \o Lit(<<"e","m","p","e","r","a","t","u","r","e">>) \o
    <<WsStar, LabelSep, WsStar>> \o
    Group(1, <<Plus(NumChar)>>) \o
    <<WsStar, Cls({"°"}, 0, 1)>> \o Lit(<<"C">>)

\* r"[Tt]emp\.?\s*[:.]?\s*([\d.,]+)\s*°?C"
temperature_2 ==
    <<Cls({"T", "t"}, 1, 1)>> \o Lit(<<"e","m","p">>) \o
    <<Cls({"."}, 0, 1), WsStar, LabelSep, WsStar>> \o
    Group(1, <<Plus(NumChar)>>) \o
    <<WsStar, Cls({"°"}, 0, 1)>> \o Lit(<<"C">>)

\* r"([\d.,]+)\s*°C"
temperature_3 ==
    Group(1, <<Plus(NumChar)>>) \o <<WsStar>> \o
    Lit(<<"°","C">>)

\* r"[Hh]umidity\s*[:.]?\s*([\d.,]+)\s*%"
humidity_1 ==
    <<Cls({"H", "h"}, 1, 1)>> \o Lit(<<"u","m","i","d","i","t","y">>) \o
    <<WsStar, LabelSep, WsStar>> \o
    Group(1, <<Plus(NumChar)>>) \o <<WsStar>> \o
    Lit(<<"%">>)

\* r"[Rr]elative\s*[Hh]umidity\s*[:.]?\s*([\d.,]+)\s*%"
humidity_2 ==
    <<Cls({"R", "r"}, 1, 1)>> \o Lit(<<"e","l","a","t","i","v","e">>) \o
    <<WsStar, Cls({"H", "h"}, 1, 1)>> \o
    Lit(<<"u","m","i","d","i","t","y">>) \o
    <<WsStar, LabelSep, WsStar>> \o
    Group(1, <<Plus(NumChar)>>) \o <<WsStar>> \o
    Lit(<<"%">>)

\* r"[Ff]euchtigkeit\s*[:.]?\s*([\d.,]+)\s*%"
humidity_3 ==
    <<Cls({"F", "f"}, 1, 1)>> \o
    Lit(<<"e","u","c","h","t","i","g","k","e","i","t">>) \o
    <<WsStar, LabelSep, WsStar>> \o
    Group(1, <<Plus(NumChar)>>) \o <<WsStar>> \o
    Lit(<<"%">>)

\* r"[Pp]ressure\s*[:.]?\s*([\d.,]+)\s*(hPa|mbar|Pa|kPa)"
pressure_1 ==
    <<Cls({"P", "p"}, 1, 1)>> \o Lit(<<"r","e","s","s","u","r","e">>) \o
    <<WsStar, LabelSep, WsStar>> \o
    Group(1, <<Plus(NumChar)>>) \o <<WsStar>> \o
    Group(2, PressureUnit)

\* r"[Aa]tmospheric\s*[Pp]ressure\s*[:.]?\s*([\d.,]+)\s*(hPa|mbar|Pa|kPa)"
pressure_2 ==
    <<Cls({"A", "a"}, 1, 1)>> \o Lit(<<"t","m","o","s","p","h","e","r","i","c">>) \o
    <<WsStar, Cls({"P", "p"}, 1, 1)>> \o
    Lit(<<"r","e","s","s","u","r","e">>) \o
    <<WsStar, LabelSep, WsStar>> \o
    Group(1, <<Plus(NumChar)>>) \o <<WsStar>> \o
    Group(2, PressureUnit)

\* r"[Ll]uftdruck\s*[:.]?\s*([\d.,]+)\s*(hPa|mbar|Pa|kPa)"
pressure_3 ==
    <<Cls({"L", "l"}, 1, 1)>> \o Lit(<<"u","f","t","d","r","u","c","k">>) \o
    <<WsStar, LabelSep, WsStar>> \o
    Group(1, <<Plus(NumChar)>>) \o <<WsStar>> \o
    Group(2, PressureUnit)

\* the dict PATTERNS: each key with its list of patterns in order
PATTERNS == [
    certificate_number |-> <<certificate_number_1, certificate_number_2, certificate_number_3>>,
    calibration_date |-> <<calibration_date_1, calibration_date_2, calibration_date_3>>,
    certificate_date |-> <<certificate_date_1, certificate_date_2, certificate_date_3>>,
    serial_number |-> <<serial_number_1, serial_number_2, serial_number_3>>,
    manufacturer |-> <<manufacturer_1, manufacturer_2, manufacturer_3>>,
    model |-> <<model_1, model_2, model_3>>,
    temperature |-> <<temperature_1, temperature_2, temperature_3>>,
    humidity |-> <<humidity_1, humidity_2, humidity_3>>,
    pressure |-> <<pressure_1, pressure_2, pressure_3>>
]

PatternKeys == {"certificate_number", "calibration_date", "certificate_date",
                "serial_number", "manufacturer", "model", "temperature",
                "humidity", "pressure"}

(***************************************************************************)
(* extractor.py: extract_pattern                                           *)
(***************************************************************************)
\* self.PATTERNS.get(pattern_key, [])
PatternsOf(key) ==
    IF key \in PatternKeys THEN PATTERNS[key] ELSE <<>>

\* the loop of a plausible bug: it walks the list from its last pattern
RECURSIVE PatternLoopBackwards(_, _, _, _)
PatternLoopBackwards(patterns, s, fl, i) ==
    LET j == Len(patterns) + 1 - i
    IN  IF i > Len(patterns) THEN [idx |-> 0, match |-> NoMatch]
        ELSE LET match == Search(patterns[j], s, fl)
             IN  IF match.ok THEN [idx |-> j, match |-> match]
                 ELSE PatternLoopBackwards(patterns, s, fl, i + 1)

\* if match: return match.group(1).strip(), for pattern number i
PatternTried(match, i, otherwise) ==
    IF match.ok THEN [idx |-> i, match |-> match] ELSE otherwise

\* for pattern in patterns: match = re.search(pattern, text, flags); the first
\* pattern, from number i on, that matches, with its match (idx 0: none does)
RECURSIVE PatternLoop(_, _, _, _)
PatternLoop(patterns, s, fl, i) ==
    IF i > Len(patterns) THEN [idx |-> 0, match |-> NoMatch]
    ELSE PatternTried(Search(patterns[i], s, fl), i, PatternLoop(patterns, s, fl, i + 1))

\* return match.group(1).strip(); return None after the loop
CapturedValue(hit, s) ==
    IF hit.idx # 0 THEN Some(Strip(Get(GroupOf(hit.match, s, 1)))) ELSE None

extract_pattern(s, key) ==
    CapturedValue(PatternLoop(PatternsOf(key), s, IgnoreCaseMultiLine, 1), s)

(***************************************************************************)
(* extractor.py: parse_date, with datetime.strptime as CPython runs it     *)
(***************************************************************************)
date(y, m, d) == [year |-> y, month |-> m, day |-> d]

IsLeap(y) == (y % 4 = 0 /\ y % 100 # 0) \/ y % 400 = 0

DaysInMonth(y, m) ==
    IF m = 2 THEN (IF IsLeap(y) THEN 29 ELSE 28)
    ELSE IF m \in {4, 6, 9, 11} THEN 30 ELSE 31

DigitValue(c) == CHOOSE v \in 0..9 : ToString(v) = c

\* int(): the number written by the digits of w; blanks around them are skipped
RECURSIVE ToInt(_)
ToInt(w) ==
    IF w = <<>> THEN 0
    ELSE IF w[Len(w)] \in Space THEN ToInt(SubSeq(w, 1, Len(w) - 1))
    ELSE IF Head(w) \in Space THEN ToInt(Tail(w))
    ELSE 10 * ToInt(SubSeq(w, 1, Len(w) - 1)) + DigitValue(w[Len(w)])

NonZeroDigit == Digit \ {"0"}

\* the regular expression strptime puts for a directive, capturing in group g
\*   %d  (?P<d>3[0-1]|[1-2]\d|0[1-9]|[1-9]| [1-9])
\*   %m  (?P<m>1[0-2]|0[1-9]|[1-9])
\*   %Y  (?P<Y>\d\d\d\d)
\*   %y  (?P<y>\d\d)
DirectiveRegex(dv, g) ==
    CASE dv = "%d" ->
           Group(g, <<Alt(<< <<Ch("3"), Cls({"0", "1"}, 1, 1)>>,
                             <<Cls({"1", "2"}, 1, 1), Cls(Digit, 1, 1)>>,
                             <<Ch("0"), Cls(NonZeroDigit, 1, 1)>>,
                             <<Cls(NonZeroDigit, 1, 1)>>,
                             <<Ch(" "), Cls(NonZeroDigit, 1, 1)>> >>)>>)
      [] dv = "%m" ->
           Group(g, <<Alt(<< <<Ch("1"), Cls({"0", "1", "2"}, 1, 1)>>,
                             <<Ch("0"), Cls(NonZeroDigit, 1, 1)>>,
                             <<Cls(NonZeroDigit, 1, 1)>> >>)>>)
      [] dv = "%Y" -> Group(g, <<Cls(Digit, 4, 4)>>)
      [] dv = "%y" -> Group(g, <<Cls(Digit, 2, 2)>>)
      [] OTHER -> <<Ch(dv)>>

\* a format is a sequence of directives and literal characters
IsDirective(x) == x \in {"%d", "%m", "%Y", "%y"}

RECURSIVE FormatRegex(_, _)
FormatRegex(fmt, i) ==
    IF i > Len(fmt) THEN <<>>
    ELSE DirectiveRegex(fmt[i], i) \o FormatRegex(fmt, i + 1)

\* the text the directive dv of the format captured
FieldOf(fmt, m, s, dv) ==
    IF \E i \in DOMAIN fmt : fmt[i] = dv
    THEN GroupOf(m, s, CHOOSE i \in DOMAIN fmt : fmt[i] = dv)
    ELSE None

\* the conversion of a plausible bug: what follows the match is ignored
ConvertedPrefix(found, s, fmt) ==
    IF ~found.ok THEN Raise("ValueError", <<"does not match format">>)
    ELSE LET Y == FieldOf(fmt, found, s, "%Y")
             y == FieldOf(fmt, found, s, "%y")
             year == IF Y # None THEN ToInt(Get(Y))
                     ELSE IF ToInt(Get(y)) <= 68 THEN 2000 + ToInt(Get(y))
                     ELSE 1900 + ToInt(Get(y))
             month == ToInt(Get(FieldOf(fmt, found, s, "%m")))
             day == ToInt(Get(FieldOf(fmt, found, s, "%d")))
         IN  IF year < 1 THEN Raise("ValueError", <<"year 0 is out of range">>)
             ELSE IF day > DaysInMonth(year, month)
             THEN Raise("ValueError", <<"day is out of range for month">>)
             ELSE Ok(date(year, month, day))

\* the date of a match found of the format's expression: it must use all of
\* s; a two-digit year up to 68 is in the 2000s, from 69 on in the 1900s; the
\* fields must name a day of the calendar
Converted(found, s, fmt) ==
    IF ~found.ok THEN Raise("ValueError", <<"does not match format">>)
    ELSE IF found.end # Len(s) + 1
    THEN Raise("ValueError", <<"unconverted data remains">>)
    ELSE LET Y == FieldOf(fmt, found, s, "%Y")
             y == FieldOf(fmt, found, s, "%y")
             year == IF Y # None THEN ToInt(Get(Y))
                     ELSE IF ToInt(Get(y)) <= 68 THEN 2000 + ToInt(Get(y))
                     ELSE 1900 + ToInt(Get(y))
             month == ToInt(Get(FieldOf(fmt, found, s, "%m")))
             day == ToInt(Get(FieldOf(fmt, found, s, "%d")))
         IN  IF year < 1 THEN Raise("ValueError", <<"year 0 is out of range">>)
             ELSE IF day > DaysInMonth(year, month)
             THEN Raise("ValueError", <<"day is out of range for month">>)
             ELSE Ok(date(year, month, day))

\* datetime.strptime(s, fmt): the format's expression must match at the start
\* of s
strptime(s, fmt) == Converted(MatchAt(FormatRegex(fmt, 1), s, 1, IgnoreCase), s, fmt)

DayMonthYearDots    == <<"%d", ".", "%m", ".", "%Y">>
DayMonthYearSlashes == <<"%d", "/", "%m", "/", "%Y">>
YearMonthDayIso     == <<"%Y", "-", "%m", "-", "%d">>
DayMonthYearDashes  == <<"%d", "-", "%m", "-", "%Y">>
MonthDayYearSlashes == <<"%m", "/", "%d", "/", "%Y">>
DayMonthShortDots   == <<"%d", ".", "%m", ".", "%y">>
DayMonthShortSlashes == <<"%d", "/", "%m", "/", "%y">>

\* the list of a plausible bug: month/day/year is tried before day/month/year
date_formats_month_first ==
    <<DayMonthYearDots, MonthDayYearSlashes, YearMonthDayIso, DayMonthYearDashes,
      DayMonthYearSlashes, DayMonthShortDots, DayMonthShortSlashes>>

date_formats ==
    <<DayMonthYearDots, DayMonthYearSlashes, YearMonthDayIso, DayMonthYearDashes,
      MonthDayYearSlashes, DayMonthShortDots, DayMonthShortSlashes>>

\* the loop of a plausible bug: no except clause, the first format that does
\* not fit ends parse_date with its ValueError
RECURSIVE TryFormatsNoExcept(_, _)
TryFormatsNoExcept(s, i) ==
    IF i > Len(date_formats) THEN Ok(None)
    ELSE LET parsed_dt == strptime(Strip(s), date_formats[i])
         IN  IF IsOk(parsed_dt) THEN Ok(Some(parsed_dt.value))
             ELSE parsed_dt

\* return parsed_dt.date(); except ValueError: continue
FormatTried(parsed_dt, otherwise) ==
    IF IsOk(parsed_dt) THEN Ok(Some(parsed_dt.value)) ELSE otherwise

\* for fmt in date_formats: try strptime(date_str.strip(), fmt) ...
\* except ValueError: continue; return None after the last format
RECURSIVE TryFormats(_, _)
TryFormats(s, i) ==
    IF i > Len(date_formats) THEN Ok(None)
    ELSE FormatTried(strptime(Strip(s), date_formats[i]), TryFormats(s, i + 1))

parse_date(s) == TryFormats(s, 1)

(***************************************************************************)
(* models.py: measured values and results                                  *)
(***************************************************************************)
MeasuredValue(v, u) ==
    [value |-> v, unit |-> u, expanded_uncertainty |-> None,
     coverage_factor |-> None, coverage_probability |-> None]

\* origin is bookkeeping, no field of the program's MeasurementResult: the pass
\* (1 delimited-row, 2 unit-anchored), the index of the unit pattern (0 in
\* pass 1) and the position in the text where the match starts
MeasurementResult(n, mv, org) ==
    [name |-> n, reference_value |-> None, measured_value |-> mv,
     deviation |-> None, remarks |-> None, origin |-> org]

(***************************************************************************)
(* extractor.py: extract_measurement_tables                                *)
(***************************************************************************)
MaxNameLen == 100
ContextLen == 50

\* the loop of a plausible bug: a label of any length is taken
RECURSIVE DelimitedRowsAnyLength(_, _)
DelimitedRowsAnyLength(ms, s) ==
    IF ms = <<>> THEN <<>>
    ELSE LET match == Head(ms)
             name == Strip(Get(GroupOf(match, s, 1)))
             value_str == ReplaceComma(Get(GroupOf(match, s, 2)))
             g3 == GroupOf(match, s, 3)
             unit_str == IF g3 = None THEN <<>> ELSE Get(g3)
             value == float(value_str)
             unit == IF unit_str # <<>> THEN get_unit(unit_str)
                     ELSE MeasurementUnit(<<>>, None, None)
             result == MeasurementResult(name, MeasuredValue(value.value, unit),
                         [pass |-> 1, pat |-> 0, start |-> match.start])
         IN  IF name = <<>>
             THEN DelimitedRowsAnyLength(Tail(ms), s)
             ELSE IF ~IsOk(value)
             THEN DelimitedRowsAnyLength(Tail(ms), s)
             ELSE <<result>> \o DelimitedRowsAnyLength(Tail(ms), s)

\* the body of the first loop for the matches ms of measurement_pattern
RECURSIVE DelimitedRows(_, _)
DelimitedRows(ms, s) ==
    IF ms = <<>> THEN <<>>
    ELSE LET match == Head(ms)
             name == Strip(Get(GroupOf(match, s, 1)))
             value_str == ReplaceComma(Get(GroupOf(match, s, 2)))
             g3 == GroupOf(match, s, 3)
             unit_str == IF g3 = None THEN <<>> ELSE Get(g3)     \* group(3) or ""
             value == float(value_str)
             unit == IF unit_str # <<>> THEN get_unit(unit_str)
                     ELSE MeasurementUnit(<<>>, None, None)
             result == MeasurementResult(name, MeasuredValue(value.value, unit),
                         [pass |-> 1, pat |-> 0, start |-> match.start])
         IN  IF name = <<>> \/ Len(name) > MaxNameLen
             THEN DelimitedRows(Tail(ms), s)            \* continue
             ELSE IF ~IsOk(value)
             THEN DelimitedRows(Tail(ms), s)            \* except ValueError: continue
             ELSE <<result>> \o DelimitedRows(Tail(ms), s)

\* lines 281-297: the delimited-row pass, which starts the list
DelimitedRowPass(s) == DelimitedRows(FindIter(measurement_pattern, s, MultiLine), s)

\* f"Measurement ({unit_symbol})"
SynthesizedName(unit_symbol) ==
    <<"M","e","a","s","u","r","e","m","e","n","t"," ","(">> \o unit_symbol \o <<")">>

\* the name of a plausible bug: the last line is taken as it is
ContextNameUntrimmed(s, start, unit_symbol) ==
    LET from == IF start - ContextLen > 1 THEN start - ContextLen ELSE 1
        context == Strip(SubSeq(s, from, start - 1))
        name == IF context # <<>> THEN LastLine(context)
                ELSE SynthesizedName(unit_symbol)
    IN  IF Len(name) > MaxNameLen THEN SynthesizedName(unit_symbol) ELSE name

\* the name of a unit-anchored match starting at position start of s
ContextName(s, start, unit_symbol) ==
    LET from == IF start - ContextLen > 1 THEN start - ContextLen ELSE 1
        context == Strip(SubSeq(s, from, start - 1))
        name == IF context # <<>> THEN Strip(LastLine(context))
                ELSE SynthesizedName(unit_symbol)
    IN  IF Len(name) > MaxNameLen THEN SynthesizedName(unit_symbol) ELSE name

IsDuplicateNever(res, name, value) == FALSE

\* the test of a plausible bug: the name alone makes a duplicate
IsDuplicateByName(res, name, value) == \E i \in DOMAIN res : res[i].name = name

\* any(r.name == name and r.measured_value.value == value for r in results)
IsDuplicate(res, name, value) ==
    \E i \in DOMAIN res : res[i].name = name /\ res[i].measured_value.value = value

\* the matches ms of unit pattern number k, appended to res unless duplicates
RECURSIVE UnitMatches(_, _, _, _)
UnitMatches(ms, s, k, res) ==
    IF ms = <<>> THEN res
    ELSE LET match == Head(ms)
             unit_symbol == UNIT_PATTERNS[k].unit
             value == float(ReplaceComma(Get(GroupOf(match, s, 1))))
             name == ContextName(s, match.start, unit_symbol)
             result == MeasurementResult(name,
                         MeasuredValue(value.value, get_unit(unit_symbol)),
                         [pass |-> 2, pat |-> k, start |-> match.start])
         IN  IF ~IsOk(value)
             THEN UnitMatches(Tail(ms), s, k, res)      \* except ValueError: continue
             ELSE IF IsDuplicate(res, name, value.value)
             THEN UnitMatches(Tail(ms), s, k, res)
             ELSE UnitMatches(Tail(ms), s, k, Append(res, result))

\* the round of a plausible bug: new results are put in front of the list
UnitPatternPassInFront(k, s, res) ==
    LET r == UnitMatches(FindIter(UNIT_PATTERNS[k].re, s, NoFlags), s, k, res)
    IN  SubSeq(r, Len(res) + 1, Len(r)) \o res

\* one round of the loop over UNIT_PATTERNS: pattern number k
UnitPatternPass(k, s, res) ==
    UnitMatches(FindIter(UNIT_PATTERNS[k].re, s, NoFlags), s, k, res)

\* lines 300-322: the rounds of the patterns lo..hi in their order, as the
\* rounds of the first half and then, on their list, those of the second half;
\* the list res is computed before the rounds start (the test on its length
\* only fixes that order)
RECURSIVE UnitAnchored(_, _, _, _)
UnitAnchored(lo, hi, s, res) ==
    CASE Len(res) < 0 \/ lo > hi -> res
      [] lo = hi -> UnitPatternPass(lo, s, res)
      [] OTHER -> UnitAnchored((lo + hi) \div 2 + 1, hi, s,
                               UnitAnchored(lo, (lo + hi) \div 2, s, res))

\* the delimited-row pass, then the rounds from the first unit pattern on
extract_measurement_tables(s) ==
    UnitAnchored(1, Len(UNIT_PATTERNS), s, DelimitedRowPass(s))

(***************************************************************************)
(* Inputs: texts are put together from at most MaxPieces pieces            *)
(***************************************************************************)
MaxPieces == 4

TextsOf(pieces, n) == {Flatten(ps) : ps \in UNION {[1..j -> pieces] : j \in 0..n}}

MeasPieces == { <<"#","\t","1">>, <<"\n">>, <<"1","N">>, <<"1","k","N">>, <<"N">>, <<".">> }

(***************************************************************************)
(* models.py: the certificate and its parts                                *)
(***************************************************************************)
Organization(n) ==
    [name |-> n, address |-> None, contact |-> None, accreditation_number |-> None]

EquipmentInfo(n, mf, md, sn) ==
    [name |-> n, manufacturer |-> mf, model |-> md, serial_number |-> sn,
     equipment_class |-> None, identification_number |-> None]

EnvironmentalConditions(t, h, p) == [temperature |-> t, humidity |-> h, pressure |-> p]

\* extraction_timestamp (the clock at construction) is left out
CalibrationCertificate(number, cert_date, cal_date, lab, eq, env, meas, raw, src) ==
    [certificate_number |-> number, certificate_date |-> cert_date,
     calibration_date |-> cal_date, valid_until |-> None, language |-> <<"e","n">>,
     calibration_laboratory |-> lab, customer |-> None, equipment |-> eq,
     environmental_conditions |-> env, measurement_results |-> meas,
     measurement_procedure |-> None, traceability |-> None, remarks |-> None,
     raw_text |-> raw, source_file |-> src]

\* "not x" for an Optional[str]: None and the empty string are false
Falsy(o) == o = None \/ Get(o) = <<>>

(***************************************************************************)
(* pathlib: a path is the sequence of its characters, parts joined by "/"  *)
(***************************************************************************)
LastIndexOf(s, c) ==
    IF \E i \in DOMAIN s : s[i] = c
    THEN CHOOSE i \in DOMAIN s : s[i] = c /\ \A j \in DOMAIN s : s[j] = c => j <= i
    ELSE 0

\* Path.name: the final component
PathName(path) == SubSeq(path, LastIndexOf(path, "/") + 1, Len(path))

\* Path.suffix: from the last dot of the name on, unless that dot starts or
\* ends the name
PathSuffix(path) ==
    LET name == PathName(path)
        i == LastIndexOf(name, ".")
    IN  IF 1 < i /\ i < Len(name) THEN SubSeq(name, i, Len(name)) ELSE <<>>

\* the stem of a plausible bug: the suffix stays
PathStemWithSuffix(path) == PathName(path)

\* Path.stem: the name without its suffix
PathStem(path) ==
    LET name == PathName(path)
    IN  SubSeq(name, 1, Len(name) - Len(PathSuffix(path)))

\* str.lower
LowerStr(s) == [i \in DOMAIN s |-> ToLower(s[i])]

(***************************************************************************)
(* extractor.py: extract_from_file.  A world w tells which files exist     *)
(* (DOMAIN w.files), what PyMuPDF and the OCR chain give for each (a text  *)
(* or an exception) and which of the two libraries are installed.          *)
(***************************************************************************)
MinPdfTextLen == 100

ImageSuffixes == { <<".","p","n","g">>, <<".","j","p","g">>, <<".","j","p","e","g">>,
                   <<".","t","i","f","f">>, <<".","t","i","f">>, <<".","b","m","p">> }

\* the _extract_from_pdf of a plausible bug: the text of PyMuPDF is measured
\* with the whitespace around it
_extract_from_pdf_untrimmed(file_path, w) ==
    LET file == w.files[file_path]
    IN  IF w.HAS_PYMUPDF /\ IsOk(file.fitz) /\ Len(file.fitz.value) > MinPdfTextLen
        THEN Ok(file.fitz.value)
        ELSE IF w.HAS_OCR THEN file.ocr
        ELSE Raise("ImportError",
                   <<"N","e","i","t","h","e","r"," ","P","y","M","u","P","D","F"," ","n",
                       "o","r"," ","p","y","t","e","s","s","e","r","a","c","t","/","p","d",
                       "f","2","i","m","a","g","e"," ","a","v","a","i","l","a","b","l","e",
                       " ","f","o","r"," ","P","D","F"," ","e","x","t","r","a","c","t","i",
                       "o","n">>)

_extract_from_pdf(file_path, w) ==
    LET file == w.files[file_path]
    IN  IF w.HAS_PYMUPDF /\ IsOk(file.fitz) /\ Len(Strip(file.fitz.value)) > MinPdfTextLen
        THEN Ok(file.fitz.value)
        ELSE IF w.HAS_OCR THEN file.ocr            \* the text, or the exception re-raised
        ELSE Raise("ImportError",
                   <<"N","e","i","t","h","e","r"," ","P","y","M","u","P","D","F"," ","n",
                       "o","r"," ","p","y","t","e","s","s","e","r","a","c","t","/","p","d",
                       "f","2","i","m","a","g","e"," ","a","v","a","i","l","a","b","l","e",
                       " ","f","o","r"," ","P","D","F"," ","e","x","t","r","a","c","t","i",
                       "o","n">>)

_extract_from_image(file_path, w) ==
    IF ~w.HAS_OCR
    THEN Raise("ImportError", <<"p","y","t","e","s","s","e","r","a","c","t"," ","n","o","t",
        " ","a","v","a","i","l","a","b","l","e"," ","f","o","r"," ","O","C","R">>)
    ELSE w.files[file_path].ocr

\* the extract_from_file of a plausible bug: the extension is looked at
\* before the existence of the file
extract_from_file_suffix_first(file_path, w) ==
    LET suffix == LowerStr(PathSuffix(file_path))
    IN  IF suffix # <<".","p","d","f">> /\ suffix \notin ImageSuffixes
        THEN Raise("ValueError", <<"U","n","s","u","p","p","o","r","t","e","d"," ","f","i",
            "l","e"," ","f","o","r","m","a","t",":"," ">> \o suffix)
        ELSE IF file_path \notin DOMAIN w.files
        THEN Raise("FileNotFoundError", <<"F","i","l","e"," ","n","o","t"," ","f","o","u",
            "n","d",":"," ">> \o file_path)
        ELSE IF suffix = <<".","p","d","f">> THEN _extract_from_pdf(file_path, w)
        ELSE _extract_from_image(file_path, w)

extract_from_file(file_path, w) ==
    LET suffix == LowerStr(PathSuffix(file_path))
    IN  IF file_path \notin DOMAIN w.files
        THEN Raise("FileNotFoundError", <<"F","i","l","e"," ","n","o","t"," ","f","o","u",
            "n","d",":"," ">> \o file_path)
        ELSE IF suffix = <<".","p","d","f">> THEN _extract_from_pdf(file_path, w)
        ELSE IF suffix \in ImageSuffixes THEN _extract_from_image(file_path, w)
        ELSE Raise("ValueError", <<"U","n","s","u","p","p","o","r","t","e","d"," ","f","i",
            "l","e"," ","f","o","r","m","a","t",":"," ">> \o suffix)

\* the calls of _extract_from_pdf into the libraries: fitz.open when PyMuPDF
\* is installed; convert_from_path (and the OCR of the pages) when the text
\* of PyMuPDF is not kept and the OCR chain is installed
_extract_from_pdf_calls(file_path, w) ==
    (IF w.HAS_PYMUPDF THEN <<"fitz.open">> ELSE <<>>)
    \o (IF w.HAS_PYMUPDF /\ IsOk(w.files[file_path].fitz)
            /\ Len(Strip(w.files[file_path].fitz.value)) > MinPdfTextLen
        THEN <<>>
        ELSE IF w.HAS_OCR THEN <<"convert_from_path">> ELSE <<>>)

\* the calls of _extract_from_image into the libraries
_extract_from_image_calls(file_path, w) ==
    IF ~w.HAS_OCR THEN <<>> ELSE <<"Image.open">>

\* the calls of extract_from_file into the libraries, in order
extract_from_file_calls(file_path, w) ==
    IF file_path \notin DOMAIN w.files THEN <<>>
    ELSE IF LowerStr(PathSuffix(file_path)) = <<".","p","d","f">>
    THEN _extract_from_pdf_calls(file_path, w)
    ELSE IF LowerStr(PathSuffix(file_path)) \in ImageSuffixes
    THEN _extract_from_image_calls(file_path, w)
    ELSE <<>>

(***************************************************************************)
(* extractor.py: extract_environmental_conditions                          *)
(***************************************************************************)
\* the value of a captured number with its unit, None when float() raises
\* ValueError (except ValueError: pass)
ConditionValue(str, unit_symbol) ==
    LET value == float(ReplaceComma(str))
    IN  IF IsOk(value) THEN Some(MeasuredValue(value.value, get_unit(unit_symbol)))
        ELSE None

\* if temp_str: ... ; if humidity_str: ...
OptionalCondition(str, unit_symbol) ==
    IF ~Falsy(str) THEN ConditionValue(Get(str), unit_symbol) ELSE None

\* if pressure_match: the number of group 1 with the unit of group 2
PressureCondition(pressure_match, s) ==
    IF pressure_match.idx # 0
    THEN ConditionValue(Get(GroupOf(pressure_match.match, s, 1)),
                        Get(GroupOf(pressure_match.match, s, 2)))
    ELSE None

\* the return of a plausible bug: the conditions object whether or not it
\* holds data
ConditionsAlways(temperature, humidity, pressure) ==
    Some(EnvironmentalConditions(temperature, humidity, pressure))

\* if has_data: return conditions; return None
ConditionsOf(temperature, humidity, pressure) ==
    LET has_data == temperature # None \/ humidity # None \/ pressure # None
    IN  IF has_data THEN Some(EnvironmentalConditions(temperature, humidity, pressure))
        ELSE None

extract_environmental_conditions(s) ==
    ConditionsOf(OptionalCondition(extract_pattern(s, "temperature"), <<"°","C">>),
                 OptionalCondition(extract_pattern(s, "humidity"), <<"%","r","h">>),
                 \* re.search(pattern, text, re.IGNORECASE): no MULTILINE here
                 PressureCondition(PatternLoop(PATTERNS["pressure"], s, IgnoreCase, 1), s))

(***************************************************************************)
(* extractor.py: parse_certificate                                         *)
(***************************************************************************)
UnknownPrefix == <<"U","N","K","N","O","W","N","-">>
UnknownEquipment == <<"U","n","k","n","o","w","n"," ","E","q","u","i","p","m","e","n","t">>

\* self.parse_date(date_str) if date_str else None
OptionalDate(str) == IF ~Falsy(str) THEN parse_date(Get(str)) ELSE Ok(None)

\* cert_number or f"UNKNOWN-{Path(file_path).stem}"
CertNumber(number, file_path) ==
    IF Falsy(number) THEN UnknownPrefix \o PathStem(file_path) ELSE Get(number)

\* the equipment of a plausible bug: the name is the model, no default
EquipmentNamedByModel(serial, manufacturer, model) ==
    EquipmentInfo(IF model = None THEN <<>> ELSE Get(model), manufacturer, model, serial)

\* EquipmentInfo(name=model or "Unknown Equipment", ...)
Equipment(serial, manufacturer, model) ==
    EquipmentInfo(IF Falsy(model) THEN UnknownEquipment ELSE Get(model),
                  manufacturer, model, serial)

\* the certificate of the fields extracted; an exception of parse_date, of the
\* calibration date first, leaves parse_certificate
CertificateOf(raw_text, file_path, lab_name, cert_number, cal_date, cert_date, equipment) ==
    IF ~IsOk(cal_date) THEN cal_date
    ELSE IF ~IsOk(cert_date) THEN cert_date
    ELSE Ok(CalibrationCertificate(cert_number, cert_date.value,
                cal_date.value, Organization(lab_name), equipment,
                extract_environmental_conditions(raw_text),
                extract_measurement_tables(raw_text), Some(raw_text),
                Some(file_path)))

\* the fields of the text acquired; an exception of the acquisition leaves
\* parse_certificate
ParseText(raw, file_path, lab_name) ==
    IF ~IsOk(raw) THEN raw
    ELSE CertificateOf(raw.value, file_path, lab_name,
             CertNumber(extract_pattern(raw.value, "certificate_number"), file_path),
             OptionalDate(extract_pattern(raw.value, "calibration_date")),
             OptionalDate(extract_pattern(raw.value, "certificate_date")),
             Equipment(extract_pattern(raw.value, "serial_number"),
                       extract_pattern(raw.value, "manufacturer"),
                       extract_pattern(raw.value, "model")))

parse_certificate(file_path, lab_name, w) ==
    ParseText(extract_from_file(file_path, w), file_path, lab_name)

(***************************************************************************)
(* agent.py: validate_certificate                                          *)
(***************************************************************************)
UNKNOWN == <<"U","N","K","N","O","W","N">>

FewResults == 2

\* the function of a plausible bug: the test for few results is an "if", not
\* an "elif"
validate_certificate_if(cert) ==
    (IF StartsWith(cert.certificate_number, UNKNOWN)
     THEN <<"Certificate number could not be extracted">> ELSE <<>>)
    \o (IF cert.calibration_date = None
        THEN <<"Calibration date is missing">> ELSE <<>>)
    \o (IF Falsy(cert.equipment.serial_number)
        THEN <<"Equipment serial number is missing">> ELSE <<>>)
    \o (IF cert.measurement_results = <<>>
        THEN <<"No measurement results were extracted">> ELSE <<>>)
    \o (IF Len(cert.measurement_results) < FewResults
        THEN <<"Very few measurement results extracted - manual review recommended">>
        ELSE <<>>)
    \o (IF cert.environmental_conditions = None
        THEN <<"Environmental conditions are missing">> ELSE <<>>)

\* the function of a plausible bug: the serial number is checked before the
\* calibration date
validate_certificate_serial_first(cert) ==
    (IF StartsWith(cert.certificate_number, UNKNOWN)
     THEN <<"Certificate number could not be extracted">> ELSE <<>>)
    \o (IF Falsy(cert.equipment.serial_number)
        THEN <<"Equipment serial number is missing">> ELSE <<>>)
    \o (IF cert.calibration_date = None
        THEN <<"Calibration date is missing">> ELSE <<>>)
    \o (IF cert.measurement_results = <<>>
        THEN <<"No measurement results were extracted">>
        ELSE IF Len(cert.measurement_results) < FewResults
        THEN <<"Very few measurement results extracted - manual review recommended">>
        ELSE <<>>)
    \o (IF cert.environmental_conditions = None
        THEN <<"Environmental conditions are missing">> ELSE <<>>)

\* issues = []; each "if" appends its message
validate_certificate(cert) ==
    (IF StartsWith(cert.certificate_number, UNKNOWN)
     THEN <<"Certificate number could not be extracted">> ELSE <<>>)
    \o (IF cert.calibration_date = None
        THEN <<"Calibration date is missing">> ELSE <<>>)
    \o (IF Falsy(cert.equipment.serial_number)
        THEN <<"Equipment serial number is missing">> ELSE <<>>)
    \o (IF cert.measurement_results = <<>>
        THEN <<"No measurement results were extracted">>
        ELSE IF Len(cert.measurement_results) < FewResults
        THEN <<"Very few measurement results extracted - manual review recommended">>
        ELSE <<>>)
    \o (IF cert.environmental_conditions = None
        THEN <<"Environmental conditions are missing">> ELSE <<>>)

\* a validate_certificate that clears a serial number it finds empty
validate_certificate_call_clearing(self, cert) ==
    [issues |-> validate_certificate(cert), self |-> self,
     certificate |-> IF Falsy(cert.equipment.serial_number)
                     THEN [cert EXCEPT !.equipment.serial_number = None] ELSE cert]

\* agent.validate_certificate(certificate): what is returned, and the agent
\* and the certificate after the call; the method assigns to neither
validate_certificate_call(self, cert) ==
    [issues |-> validate_certificate(cert), self |-> self, certificate |-> cert]

\* the variables an operation under study does not use keep these values
MeasIdle == results = <<>>
PatternIdle == pattern_key = None /\ pattern_value = None
DateIdle == date_str = <<>> /\ written = None /\ parsed_date = None
CertIdle == certificate = None /\ issues = <<>>
FileIdle == world = None /\ input_file = None
BatchIdle ==
    /\ input_files = <<>> /\ output_dir = <<>> /\ lab_info = None
    /\ include_raw_text = FALSE /\ batch_index = 0 /\ batch_results = <<>>
    /\ disk = [dirs |-> {}, files |-> <<>>] /\ processed = <<>> /\ clock = None

UnitIdle ==
    lookup_symbol = None /\ lookup_unit = None /\ lookup_si = None /\ common_units = None
CallerIdle == lab_name_arg = None
ProcessIdle == returned_xml = None /\ library_calls = <<>>
CliIdle == cli_args = None /\ cli_dirs = <<>> /\ exit_code = None
AgentIdle == agent = None /\ validate_calls = 0
JobIdle == jobs = <<>>
ValueIdle == mv_kwargs = None /\ mv_built = None /\ mv_element = None
GenIdle == xml_root = None
ApiIdle ==
    customer_info = None /\ lab_kwargs = None /\ lab_created = None /\ env_conditions = None
MoreIdle == CliIdle /\ AgentIdle /\ JobIdle /\ ValueIdle /\ GenIdle /\ ApiIdle
ExtraIdle == UnitIdle /\ CallerIdle /\ ProcessIdle /\ MoreIdle

(***************************************************************************)
(* SpecMeas: extract_measurement_tables applied to a text                  *)
(***************************************************************************)
\* a humidity that two unit patterns match at the same place, a force
\* written with a thousands separator, two forces under one name, a force on
\* an indented line, a force after a label of more than ContextLen
\* characters, rows with a blank label and with a label of more than
\* MaxNameLen characters
UnitTexts == { <<"x"," ","5"," ","%","r","h">>,
               <<"F"," ","1",",","0","0","0",".","5"," ","k","N">>,
               <<"F"," ","1","N","\n","F"," ","2","N">>,
               <<"x","\n"," "," ","F"," ","1","N">>,
               <<"A">> \o [i \in 1..55 |-> "b"] \o <<" ","1","N">>,
               <<" ",":","1","N">>,
               [i \in 1..101 |-> "b"] \o <<":"," ","1","N">> }

InitMeas ==
    /\ pc = "meas"
    /\ text \in TextsOf(MeasPieces, MaxPieces) \cup UnitTexts
    /\ results = <<>>
    /\ raised = None
    /\ PatternIdle /\ DateIdle /\ CertIdle /\ FileIdle
    /\ BatchIdle /\ ExtraIdle

ExtractMeasurementTables ==
    /\ pc = "meas"
    /\ results' = extract_measurement_tables(text)
    /\ pc' = "meas_done"
    /\ UNCHANGED <<raised, text, pattern_vars, date_vars, cert_vars, file_vars, batch_vars, extra_vars>>

NextMeas == ExtractMeasurementTables

SpecMeas == InitMeas /\ [][NextMeas]_vars

SameNameValue(r1, r2) ==
    r1.name = r2.name /\ r1.measured_value.value = r2.measured_value.value

\* C1 as stated: the returned list never holds two entries with the same name
\* and the same value, whichever passes produced them
C1_NoTwoEntriesSameNameValue ==
    pc = "meas_done" =>
        \A i, j \in DOMAIN results : i # j => ~SameNameValue(results[i], results[j])

\* C1 amended: two entries of the returned list with the same name and the same
\* value are both delimited-row results; an entry of the unit-anchored pass
\* shares name and value with no other entry of the list
C1_DuplicatesOnlyAmongDelimitedRows ==
    pc = "meas_done" =>
        \A i, j \in DOMAIN results :
            (i # j /\ SameNameValue(results[i], results[j]))
                => (results[i].origin.pass = 1 /\ results[j].origin.pass = 1)

\* the unit-anchored matches of the text with their names and values
UnitMatchesOf(s) ==
    UNION { { [name |-> ContextName(s, m.start, UNIT_PATTERNS[p].unit),
               value |-> float(ReplaceComma(Get(GroupOf(m, s, 1))))] :
              m \in { FindIter(UNIT_PATTERNS[p].re, s, NoFlags)[i] :
                      i \in DOMAIN FindIter(UNIT_PATTERNS[p].re, s, NoFlags) } } :
            p \in DOMAIN UNIT_PATTERNS }

\* a unit-anchored match repeats the name and value of a delimited-row result
\* and the list holds that name and value once
C1_Witness ==
    /\ pc = "meas_done"
    /\ \E um \in UnitMatchesOf(text) :
          /\ IsOk(um.value)
          /\ \E i \in DOMAIN results :
                /\ results[i].origin.pass = 1
                /\ results[i].name = um.name
                /\ results[i].measured_value.value = um.value.value
          /\ Cardinality({i \in DOMAIN results :
                            /\ results[i].name = um.name
                            /\ results[i].measured_value.value = um.value.value}) = 1

\* C2 as stated: delimited-row results first, in text order, then the
\* unit-anchored results in text order, whatever unit each carries
C2_UnitAnchoredInTextOrder ==
    pc = "meas_done" =>
        \A i, j \in DOMAIN results : i < j =>
            /\ results[i].origin.pass <= results[j].origin.pass
            /\ results[i].origin.pass = results[j].origin.pass
                  => results[i].origin.start < results[j].origin.start

\* C2 amended: delimited-row results first, in text order, then the
\* unit-anchored results ordered by the place of their pattern in UNIT_PATTERNS
\* and, for one pattern, by their position in the text
C2_UnitAnchoredInPatternOrder ==
    pc = "meas_done" =>
        \A i, j \in DOMAIN results : i < j =>
            LET a == results[i].origin
                b == results[j].origin
            IN  /\ a.pass <= b.pass
                /\ (a.pass = 1 /\ b.pass = 1) => a.start < b.start
                /\ (a.pass = 2 /\ b.pass = 2) =>
                      (a.pat < b.pat \/ (a.pat = b.pat /\ a.start < b.start))

\* a delimited-row result is followed by two unit-anchored results of which the
\* first starts later in the text than the second
C2_Witness ==
    /\ pc = "meas_done"
    /\ \E h, i, j \in DOMAIN results :
          /\ h < i /\ i < j
          /\ results[h].origin.pass = 1
          /\ results[i].origin.pass = 2 /\ results[j].origin.pass = 2
          /\ results[i].origin.start > results[j].origin.start


\* the matches of the unit pattern number p in s, each with the place it
\* starts at, its name and the float of its number
UnitMatchesAt(s, p) ==
    LET ms == FindIter(UNIT_PATTERNS[p].re, s, NoFlags)
    IN  { [pat |-> p, start |-> ms[i].start,
           name |-> ContextName(s, ms[i].start, UNIT_PATTERNS[p].unit),
           value |-> float(ReplaceComma(Get(GroupOf(ms[i], s, 1))))] : i \in DOMAIN ms }

UnitMatchesIn(s) == UNION {UnitMatchesAt(s, p) : p \in DOMAIN UNIT_PATTERNS}

\* the entry r was in the list when the match um came up
WasThere(r, um) ==
    \/ r.origin.pass = 1
    \/ r.origin.pat < um.pat
    \/ r.origin.pat = um.pat /\ r.origin.start < um.start

\* the entry r has the name and the value of the match um
Represents(r, um) ==
    IsOk(um.value) /\ r.name = um.name /\ r.measured_value.value = um.value.value

\* the entry r was appended for the match um
AppendedFor(r, um) ==
    r.origin = [pass |-> 2, pat |-> um.pat, start |-> um.start] /\ Represents(r, um)

\* C24 as stated: every unit-anchored match is represented in the returned
\* list by an entry with its name and value
C24_EveryUnitMatchRepresented ==
    pc = "meas_done" =>
        \A um \in UnitMatchesIn(text) : \E i \in DOMAIN results : Represents(results[i], um)

\* C24 amended: a unit-anchored match whose number converts to a float is
\* appended exactly when no entry that was in the list before it has its name
\* and value, whatever the unit of that entry; so every such match is
\* represented in the returned list by an entry with its name and value; a
\* match whose number does not convert is skipped, and every entry of the
\* unit-anchored pass was appended for a match
C24_ConvertibleUnitMatchRepresented ==
    pc = "meas_done" =>
        LET ums == UnitMatchesIn(text)
            res == {results[i] : i \in DOMAIN results}
        IN  /\ \A um \in ums :
                  IF IsOk(um.value)
                  THEN /\ (\E r \in res : AppendedFor(r, um))
                              <=> ~(\E r \in res : WasThere(r, um) /\ Represents(r, um))
                       /\ \E r \in res : Represents(r, um)
                  ELSE ~(\E r \in res : r.origin = [pass |-> 2, pat |-> um.pat,
                                                    start |-> um.start])
            /\ \A r \in res : r.origin.pass = 2 => \E um \in ums : AppendedFor(r, um)

\* "5 %rh" after the name x: the humidity pattern appends the entry, the
\* percent pattern matches "5 %" at the same place and appends nothing
C24_Witness ==
    /\ pc = "meas_done"
    /\ text = <<"x"," ","5"," ","%","r","h">>
    /\ Cardinality(UnitMatchesIn(text)) = 2
    /\ \A um \in UnitMatchesIn(text) : um.name = <<"x">> /\ IsOk(um.value)
    /\ Len(results) = 1
    /\ results[1].measured_value.unit.symbol = <<"%","r","h">>

\* the up to ContextLen characters of s before position start
Preceding(s, start) ==
    SubSeq(s, IF start > ContextLen THEN start - ContextLen ELSE 1, start - 1)

\* the text of s after its last newline
AfterLastNewline(s) ==
    SubSeq(s, LastIndexOf(s, "\n") + 1, Len(s))

\* the name a line gives for the unit: the synthesized label when the
\* context is empty or the line longer than MaxNameLen characters
NameFrom(context, line, unit_symbol) ==
    IF context = <<>> \/ Len(line) > MaxNameLen
    THEN <<"M","e","a","s","u","r","e","m","e","n","t"," ","(">> \o unit_symbol \o <<")">>
    ELSE line

\* the unit-anchored entries of the returned list
UnitAnchoredEntries == {results[i] : i \in {j \in DOMAIN results : results[j].origin.pass = 2}}

\* C26 as stated: the name of a unit-anchored result is the last line of the
\* whitespace-trimmed text of the up to 50 characters before the match, and
\* the synthesized label when that text is empty or the name longer than 100
\* characters
C26_NameIsLastLineOfTrimmedContext ==
    pc = "meas_done" =>
        \A r \in UnitAnchoredEntries :
            LET context == Strip(Preceding(text, r.origin.start))
            IN  r.name = NameFrom(context, AfterLastNewline(context),
                                  UNIT_PATTERNS[r.origin.pat].unit)

\* C26 amended: the name is that last line without the whitespace at its two
\* ends
C26_NameIsTrimmedLastLineOfTrimmedContext ==
    pc = "meas_done" =>
        \A r \in UnitAnchoredEntries :
            LET context == Strip(Preceding(text, r.origin.start))
            IN  r.name = NameFrom(context, Strip(AfterLastNewline(context)),
                                  UNIT_PATTERNS[r.origin.pat].unit)

\* a match after a label of 56 characters and a blank: the name is the last
\* 49 characters of the label
C26_Witness ==
    /\ pc = "meas_done"
    /\ Len(text) = 59
    /\ Len(results) = 1
    /\ results[1].origin = [pass |-> 2, pat |-> 3, start |-> 58]
    /\ results[1].name = [i \in 1..49 |-> "b"]

\* a match on an indented line: the name is the label without the indentation
C26_WitnessIndented ==
    /\ pc = "meas_done"
    /\ text = <<"x","\n"," "," ","F"," ","1","N">>
    /\ \E r \in UnitAnchoredEntries : r.name = <<"F">>

\* the places where the delimited rows of s start whose label, trimmed, is
\* empty or longer than 100 characters
RejectedRows(s) ==
    LET ms == FindIter(measurement_pattern, s, MultiLine)
    IN  { ms[i].start : i \in {j \in DOMAIN ms :
                                 \/ Strip(Get(GroupOf(ms[j], s, 1))) = <<>>
                                 \/ Len(Strip(Get(GroupOf(ms[j], s, 1)))) > 100} }

\* C27: every result returned has a name that is not empty and has at most
\* 100 characters; a delimited row whose trimmed label is empty or longer
\* than 100 characters has no result
C27_NamesNotEmptyAtMostHundred ==
    pc = "meas_done" =>
        /\ \A i \in DOMAIN results : results[i].name # <<>> /\ Len(results[i].name) <= 100
        /\ \A i \in DOMAIN results :
              results[i].origin.pass = 1 => results[i].origin.start \notin RejectedRows(text)

\* a row with a label of 101 characters: no result of the delimited-row
\* pass, and the unit-anchored result has a name of 49 characters
C27_Witness ==
    /\ pc = "meas_done"
    /\ Len(text) = 105
    /\ RejectedRows(text) = {1}
    /\ Len(results) = 1
    /\ results[1].origin.pass = 2
    /\ Len(results[1].name) = 49

\* a row with a blank label: no result of the delimited-row pass, and the
\* unit-anchored result is named by the separator
C27_WitnessBlankLabel ==
    /\ pc = "meas_done"
    /\ text = <<" ",":","1","N">>
    /\ RejectedRows(text) = {1}
    /\ Len(results) = 1
    /\ results[1].name = <<":">>

(***************************************************************************)
(* SpecPattern: extract_pattern applied to a text and a field key          *)
(***************************************************************************)
MaxLines == 2

PatternLines == {
    <<"2","0"," ","°","C","\n">>,
    <<"T","e","m","p",":"," ","2",",","5"," ","°","C","\n">>,
    <<"C","e","r","t","i","f","i","c","a","t","e"," ","I","D"," ","B","2","\n">>,
    <<"c","e","r","t","i","f","i","c","a","t","e"," ","N","o",".",":"," ","a","-","1","\n">>,
    <<"M","o","d","e","l"," ",":"," "," ","X"," ","1"," ","\n">>,
    <<"T","y","p","e"," ","Y",",","S","/","N"," ","7">>,
    <<"H","e","r","s","t","e","l","l","e","r",":"," ","\n">>,
    <<"I","s","s","u","e"," ","d","a","t","e"," ","3",".","4",".","2","4","\n">>,
    <<"4","5"," ","%"," ","9"," ","h","P","a","\n">> }

InitPattern ==
    /\ pc = "pattern"
    /\ text \in TextsOf(PatternLines, MaxLines)
    /\ pattern_key \in PatternKeys \cup {"unknown_key"}
    /\ pattern_value = None
    /\ raised = None
    /\ MeasIdle /\ DateIdle /\ CertIdle /\ FileIdle
    /\ BatchIdle /\ ExtraIdle

ExtractPattern ==
    /\ pc = "pattern"
    /\ pattern_value' = extract_pattern(text, pattern_key)
    /\ pc' = "pattern_done"
    /\ UNCHANGED <<raised, text, pattern_key, meas_vars, date_vars, cert_vars, file_vars, batch_vars, extra_vars>>

NextPattern == ExtractPattern

SpecPattern == InitPattern /\ [][NextPattern]_vars

\* the numbers of the patterns of the key that match somewhere in the text
MatchingPatterns(s, key) ==
    {i \in DOMAIN PatternsOf(key) : Search(PatternsOf(key)[i], s, IgnoreCaseMultiLine).ok}

\* t is cap without the whitespace at its two ends
IsTrimmed(t, cap) ==
    /\ t # <<>> => (t[1] \notin Space /\ t[Len(t)] \notin Space)
    /\ \E a \in 1..(Len(cap) + 1) :
          /\ a + Len(t) - 1 <= Len(cap)
          /\ SubSeq(cap, a, a + Len(t) - 1) = t
          /\ \A i \in DOMAIN cap : (i < a \/ i >= a + Len(t)) => cap[i] \in Space

\* C3: extract_pattern returns the first capture group, without the whitespace
\* around it, of the lowest-numbered pattern of the key that matches anywhere
\* in the text, and absent when no pattern of the key matches or the key is
\* unknown
C3_LowestIndexPatternWins ==
    pc = "pattern_done" =>
        LET hits == MatchingPatterns(text, pattern_key)
        IN  IF hits = {} THEN pattern_value = None
            ELSE LET i == CHOOSE j \in hits : \A o \in hits : j <= o
                     match == Search(PatternsOf(pattern_key)[i], text, IgnoreCaseMultiLine)
                 IN  /\ pattern_value # None
                     /\ IsTrimmed(Get(pattern_value), Get(GroupOf(match, text, 1)))

\* the winning pattern matches later in the text than a pattern after it in the
\* list, and its capture is returned
C3_Witness ==
    /\ pc = "pattern_done"
    /\ pattern_value # None
    /\ \E i, j \in MatchingPatterns(text, pattern_key) :
          /\ \A o \in MatchingPatterns(text, pattern_key) : i <= o
          /\ i < j
          /\ Search(PatternsOf(pattern_key)[j], text, IgnoreCaseMultiLine).start
               < Search(PatternsOf(pattern_key)[i], text, IgnoreCaseMultiLine).start


(***************************************************************************)
(* SpecDate: parse_date applied to written dates and to other strings      *)
(***************************************************************************)
Years == {1900, 1968, 1969, 2024, 2068, 2069}

Dates == {dt \in {date(y, m, d) : y \in Years, m \in 1..12, d \in 1..31} :
            dt.day <= DaysInMonth(dt.year, dt.month)}

SupportedFormats ==
    {DayMonthYearDots, DayMonthYearSlashes, YearMonthDayIso, DayMonthYearDashes,
     MonthDayYearSlashes, DayMonthShortDots, DayMonthShortSlashes}

\* the digits of n, at least width of them
RECURSIVE Digits(_, _)
Digits(n, width) ==
    IF width <= 1 /\ n < 10 THEN <<ToString(n)>>
    ELSE Append(Digits(n \div 10, width - 1), ToString(n % 10))

\* strftime: the date dt written in the format fmt
Format(dt, fmt) ==
    Flatten([i \in DOMAIN fmt |->
        CASE fmt[i] = "%d" -> Digits(dt.day, 2)
          [] fmt[i] = "%m" -> Digits(dt.month, 2)
          [] fmt[i] = "%Y" -> Digits(dt.year, 4)
          [] fmt[i] = "%y" -> Digits(dt.year % 100, 2)
          [] OTHER -> <<fmt[i]>>])

DateFields == { <<"1">>, <<"0","4">>, <<"1","3">>, <<"3","1">>, <<" ","4">>,
                <<"2","0","2","4">>, <<"6","9">>, <<"0","0","0","0">> }
DateSeparators == { <<".">>, <<"/">>, <<"-">> }
Padding == { <<>>, <<" ">> }

OtherDateStrings ==
    { pre \o f1 \o s1 \o f2 \o s2 \o f3 \o post :
        pre \in Padding, f1 \in DateFields, s1 \in DateSeparators,
        f2 \in DateFields, s2 \in DateSeparators, f3 \in DateFields,
        post \in {<<>>, <<"\n">>, <<"5">>} }

InitDate ==
    /\ pc = "date"
    /\ \/ \E dt \in Dates, fmt \in SupportedFormats :
             /\ written = Some([date |-> dt, format |-> fmt])
             /\ date_str = Format(dt, fmt)
       \/ /\ written = None
          /\ date_str \in OtherDateStrings
    /\ parsed_date = None
    /\ text = <<>>
    /\ raised = None
    /\ MeasIdle /\ PatternIdle /\ CertIdle /\ FileIdle
    /\ BatchIdle /\ ExtraIdle

ParseDate ==
    /\ pc = "date"
    /\ \E r \in {parse_date(date_str)} :
          /\ parsed_date' = r.value
          /\ raised' = r.raised
          /\ pc' = IF IsOk(r) THEN "date_done" ELSE "date_raised"
    /\ UNCHANGED <<text, date_str, written, meas_vars, pattern_vars, cert_vars, file_vars, batch_vars, extra_vars>>

NextDate == ParseDate

SpecDate == InitDate /\ [][NextDate]_vars

AllDigits(w) == \A i \in DOMAIN w : w[i] \in Digit

\* w can stand for the directive dv
FieldReads(dv, w) ==
    CASE dv = "%d" -> \/ Len(w) \in {1, 2} /\ AllDigits(w) /\ ToInt(w) \in 1..31
                      \/ Len(w) = 2 /\ w[1] = " " /\ w[2] \in NonZeroDigit
      [] dv = "%m" -> Len(w) \in {1, 2} /\ AllDigits(w) /\ ToInt(w) \in 1..12
      [] dv = "%Y" -> Len(w) = 4 /\ AllDigits(w) /\ ToInt(w) >= 1
      [] dv = "%y" -> Len(w) = 2 /\ AllDigits(w)

\* the date the string s denotes when read in the format fmt: three fields
\* around two separators of the format, each fit for its directive, naming a
\* day of the calendar (a two-digit year is one of 1969..2068); None otherwise
Reading(s, fmt) ==
    LET seps == {i \in DOMAIN s : s[i] = fmt[2]}
    IN  IF Cardinality(seps) # 2 THEN None
        ELSE LET p == CHOOSE i \in seps : \A j \in seps : i <= j
                 q == CHOOSE i \in seps : \A j \in seps : i >= j
                 fields == <<SubSeq(s, 1, p - 1), SubSeq(s, p + 1, q - 1),
                             SubSeq(s, q + 1, Len(s))>>
                 dirs == <<fmt[1], fmt[3], fmt[5]>>
                 val(dv) == ToInt(fields[CHOOSE k \in 1..3 : dirs[k] = dv])
                 year == IF "%Y" \in {dirs[k] : k \in 1..3} THEN val("%Y")
                         ELSE IF val("%y") >= 69 THEN 1900 + val("%y")
                         ELSE 2000 + val("%y")
             IN  IF \E k \in 1..3 : ~FieldReads(dirs[k], fields[k]) THEN None
                 ELSE IF val("%d") > DaysInMonth(year, val("%m")) THEN None
                 ELSE Some(date(year, val("%m"), val("%d")))

\* the reading of s in the first format of the list, from number i on, that
\* reads it
RECURSIVE FirstReading(_, _)
FirstReading(s, i) ==
    IF i > 7 THEN None
    ELSE LET fmt == <<DayMonthYearDots, DayMonthYearSlashes, YearMonthDayIso,
                      DayMonthYearDashes, MonthDayYearSlashes, DayMonthShortDots,
                      DayMonthShortSlashes>>[i]
         IN  IF Reading(s, fmt) # None THEN Reading(s, fmt)
             ELSE FirstReading(s, i + 1)

RoundTrips(w) ==
    \/ w.format \in {DayMonthYearDots, DayMonthYearSlashes, YearMonthDayIso,
                     DayMonthYearDashes}
    \/ /\ w.format = MonthDayYearSlashes
       /\ w.date.day > 12 \/ w.date.day = w.date.month
    \/ /\ w.format \in {DayMonthShortDots, DayMonthShortSlashes}
       /\ w.date.year \in 1969..2068

SeparatorsOf(s) == SelectSeq(s, LAMBDA c : <<c>> \in DateSeparators)

\* the three fields of s around its two separators
DateFieldsOf(s) ==
    LET seps == {i \in DOMAIN s : <<s[i]>> \in DateSeparators}
        p == CHOOSE i \in seps : \A j \in seps : i <= j
        q == CHOOSE i \in seps : \A j \in seps : i >= j
    IN  <<SubSeq(s, 1, p - 1), SubSeq(s, p + 1, q - 1), SubSeq(s, q + 1, Len(s))>>

\* s has the shape of the format fmt, each field fit for its directive, but
\* the month has no such day
ImpossibleDay(s, fmt) ==
    /\ SeparatorsOf(s) = <<fmt[2], fmt[4]>>
    /\ \A k \in 1..3 : FieldReads(fmt[2 * k - 1], DateFieldsOf(s)[k])
    /\ LET val(dv) == ToInt(DateFieldsOf(s)[CHOOSE k \in 1..3 : fmt[2 * k - 1] = dv])
           year == IF \E k \in 1..3 : fmt[2 * k - 1] = "%Y" THEN val("%Y")
                   ELSE IF val("%y") >= 69 THEN 1900 + val("%y") ELSE 2000 + val("%y")
       IN  val("%d") > DaysInMonth(year, val("%m"))

\* two dashes, and no field of four digits
DashedShortYear(s) ==
    /\ SeparatorsOf(s) = <<"-", "-">>
    /\ \A k \in 1..3 : Len(DateFieldsOf(s)[k]) < 4

\* C23: parse_date never fails; it returns the date of the first format, in
\* the order day.month.year, day/month/year, year-month-day, day-month-year,
\* month/day/year, day.month.yy, day/month/yy, that accepts the whole trimmed
\* string; so a slash date that day/month/year accepts is read that way and
\* month/day/year is used only when day/month/year rejects the string; a
\* string with mixed separators, with dashes and a two-digit year, or with a
\* day its month does not have yields absent
C23_FirstFormatThatAcceptsTheWholeString ==
    /\ pc # "date_raised"
    /\ pc = "date_done" =>
          LET s == Strip(date_str)
              dmy == Reading(s, DayMonthYearSlashes)
              mdy == Reading(s, MonthDayYearSlashes)
          IN  /\ parsed_date = FirstReading(s, 1)
              /\ dmy # None => parsed_date = dmy
              /\ (parsed_date # None /\ parsed_date = mdy /\ mdy # dmy) => dmy = None
              /\ (\A fmt \in SupportedFormats : Reading(s, fmt) = None) => parsed_date = None
              /\ (written = None /\ SeparatorsOf(s)[1] # SeparatorsOf(s)[2])
                    => parsed_date = None
              /\ (written = None /\ DashedShortYear(s)) => parsed_date = None
              /\ (written = None /\ \E fmt \in SupportedFormats : ImpossibleDay(s, fmt))
                    => parsed_date = None

\* "1/04/2024" can be read as 1 April and as 4 January: 1 April is returned
C23_Witness ==
    /\ pc = "date_done"
    /\ written = None
    /\ Strip(date_str) = <<"1","/","0","4","/","2","0","2","4">>
    /\ Reading(Strip(date_str), MonthDayYearSlashes) = Some(date(2024, 1, 4))
    /\ parsed_date = Some(date(2024, 4, 1))

\* "04/13/2024": day/month/year rejects the month 13, month/day/year is used
C23_WitnessMonthFirst ==
    /\ pc = "date_done"
    /\ date_str = <<"0","4","/","1","3","/","2","0","2","4">>
    /\ parsed_date = Some(date(2024, 4, 13))

\* "31-04-2024", "1-04-69" and "1.04/2024" yield absent
C23_WitnessRejected ==
    /\ pc = "date_done"
    /\ date_str \in { <<"3","1","-","0","4","-","2","0","2","4">>,
                      <<"1","-","0","4","-","6","9">>,
                      <<"1",".","0","4","/","2","0","2","4">> }
    /\ parsed_date = None


(***************************************************************************)
(* SpecValidate: validate_certificate applied to a certificate             *)
(***************************************************************************)
MaxResults == 3

CertificateNumbers == { <<"U","N","K","N","O","W","N","-","u","n","i","t","7">>, <<"C","A","L","-","1">>, <<"U","N","K","N","O","W","N">>,
                        <<"X","U","N","K","N","O","W","N","-","1">>, <<"u","n","k","n","o","w","n","-","1">>, <<>> }

SomeResult == MeasurementResult(<<"F">>, MeasuredValue([int |-> <<"1">>, frac |-> <<>>],
                                                       get_unit(<<"N">>)),
                                [pass |-> 1, pat |-> 0, start |-> 1])

SomeConditions ==
    { EnvironmentalConditions(None, None, None),
      EnvironmentalConditions(
          Some(MeasuredValue([int |-> <<"2","0">>, frac |-> <<>>], get_unit(<<"°","C">>))),
          None, None) }

Certificates ==
    { CalibrationCertificate(number, None, cal_date, Organization(<<"L">>),
          EquipmentInfo(<<"E">>, None, None, serial), env,
          [i \in 1..n |-> SomeResult], None, None) :
        number \in CertificateNumbers,
        cal_date \in {None, Some(date(2024, 1, 15))},
        serial \in {None, Some(<<>>), Some(<<"S","N","1">>)},
        env \in {None} \cup {Some(c) : c \in SomeConditions},
        n \in 0..MaxResults }

InitValidate ==
    /\ pc = "validate"
    /\ certificate \in Certificates
    /\ issues = <<>>
    /\ raised = None
    /\ text = <<>>
    /\ MeasIdle /\ PatternIdle /\ DateIdle /\ FileIdle
    /\ BatchIdle /\ ExtraIdle

ValidateCertificate ==
    /\ pc = "validate"
    /\ issues' = validate_certificate(certificate)
    /\ pc' = "validated"
    /\ UNCHANGED <<raised, text, certificate, meas_vars, pattern_vars, date_vars, file_vars, batch_vars, extra_vars>>

NextValidate == ValidateCertificate

SpecValidate == InitValidate /\ [][NextValidate]_vars

\* the six messages in their fixed order
Messages ==
    << "Certificate number could not be extracted",
       "Calibration date is missing",
       "Equipment serial number is missing",
       "No measurement results were extracted",
       "Very few measurement results extracted - manual review recommended",
       "Environmental conditions are missing" >>

\* the trigger of message number k for the certificate c; an empty serial
\* number counts as absent
Trigger(k, c) ==
    CASE k = 1 -> Len(c.certificate_number) >= 7
                  /\ SubSeq(c.certificate_number, 1, 7) = <<"U","N","K","N","O","W","N">>
      [] k = 2 -> c.calibration_date = None
      [] k = 3 -> c.equipment.serial_number \in {None, Some(<<>>)}
      [] k = 4 -> Len(c.measurement_results) = 0
      [] k = 5 -> Len(c.measurement_results) = 1
      [] k = 6 -> c.environmental_conditions = None

\* s is the sub-sequence of Messages made of the messages numbered in K
IsSubSequenceFor(s, K) ==
    /\ Len(s) = Cardinality(K)
    /\ \A k \in K : \E i \in DOMAIN s : s[i] = Messages[k]
    /\ \A i, j \in DOMAIN s : i < j =>
          \E k, l \in K : k < l /\ s[i] = Messages[k] /\ s[j] = Messages[l]

\* C5: validate_certificate returns exactly the messages whose trigger holds,
\* in the fixed order, so its output is empty exactly when no trigger holds,
\* and it does not raise
C5_ExactlyTheTriggeredMessagesInOrder ==
    pc = "validated" =>
        /\ raised = None
        /\ IsSubSequenceFor(issues, {k \in 1..6 : Trigger(k, certificate)})
        /\ issues = <<>> <=> \A k \in 1..6 : ~Trigger(k, certificate)

\* some triggers hold and others do not: the first, the third and the fifth
\* message are returned
C5_Witness ==
    /\ pc = "validated"
    /\ issues = <<Messages[1], Messages[3], Messages[5]>>

InIssues(msg) == \E i \in DOMAIN issues : issues[i] = msg

\* C6: the output holds "No measurement results were extracted" iff the
\* certificate has no measurement result and the "Very few ..." warning iff it
\* has exactly one; it never holds both, and with two or more results neither
C6_NoResultsXorVeryFew ==
    pc = "validated" =>
        /\ InIssues(Messages[4]) <=> Len(certificate.measurement_results) = 0
        /\ InIssues(Messages[5]) <=> Len(certificate.measurement_results) = 1
        /\ ~(InIssues(Messages[4]) /\ InIssues(Messages[5]))
        /\ Len(certificate.measurement_results) >= 2
              => (~InIssues(Messages[4]) /\ ~InIssues(Messages[5]))

\* a certificate with exactly one result gets the "Very few ..." warning and
\* not the "No measurement results" one
C6_Witness ==
    /\ pc = "validated"
    /\ Len(certificate.measurement_results) = 1
    /\ InIssues(Messages[5])
    /\ ~InIssues(Messages[4])


(***************************************************************************)
(* SpecCert: parse_certificate applied to a file, then validate_certificate *)
(***************************************************************************)
MaxCertLines == 2

CertLines == {
    <<"C","e","r","t","i","f","i","c","a","t","e"," ","N","o",":"," ","A","-","1","\n">>,
    <<"C","a","l","i","b","r","a","t","i","o","n"," ","d","a","t","e",":"," ","3","1",".",
      "0","2",".","2","0","2","4","\n">>,
    <<"I","s","s","u","e"," ","d","a","t","e"," ","1",".","3",".","2","4","\n">>,
    <<"S","/","N"," ","7",","," ","T","y","p","e"," ","X","\n">>,
    <<"T","e","m","p",":"," ","1",".","2",".","3"," ","°","C"," ","4"," ","k","N","\n">>,
    <<"F",":"," ","2",",","5"," ","k","N","\n">>,
    <<"M","o","d","e","l",":"," ","\n">>,
    <<"H","u","m","i","d","i","t","y"," ","4","5"," ","%"," ","P","R","E","S","S","U","R",
      "E",":"," ","1","0","1","3",",","2","5"," ","h","P","a","\n">> }

\* a text of more than a hundred characters, as PyMuPDF reads it from a PDF
LongText ==
    <<"C","a","l","i","b","r","a","t","i","o","n"," ","C","e","r","t","i","f","i","c","a",
      "t","e","\n","C","e","r","t","i","f","i","c","a","t","e"," ","N","o",".",":"," ","C",
      "A","L","-","2","0","2","4","-","0","0","1","\n","D","a","t","e"," ","o","f"," ","c",
      "a","l","i","b","r","a","t","i","o","n",":"," ","1","5",".","0","1",".","2","0","2",
      "4","\n","S","e","r","i","a","l"," ","N","o",".",":"," ","S","N","1","2","3","4","5",
      "\n","M","a","n","u","f","a","c","t","u","r","e","r",":"," ","A","C","M","E"," ","&",
      " ","C","o","\n","M","o","d","e","l",":"," ","X","-","1","\n","T","e","m","p","e","r",
      "a","t","u","r","e",":"," ","2","3",",","5"," ","°","C","\n">>

FitzError == Raise("RuntimeError", <<"c","a","n","n","o","t"," ","o","p","e","n"," ","b",
  "r","o","k","e","n"," ","d","o","c","u","m","e","n","t">>)
OcrError == Raise("TesseractError", <<"t","e","s","s","e","r","a","c","t"," ","f","a","i",
  "l","e","d">>)

CertPaths == { <<"u","n","i","t","7",".","p","d","f">>, <<"d","/","c","e","r","t",".","v",
  "2",".","P","N","G">>,
               <<"n","o","t","e","s",".","t","x","t">>, <<"s","c","a","n","s","/",".","p",
                 "d","f">> }

\* a text too short for PyMuPDF's result to be kept, and a text from OCR
ShortText == <<"C","e","r","t","i","f","i","c","a","t","e"," ","N","o",":"," ","B","-","2">>
OcrText == <<"M","o","d","e","l",":"," ","X","-","2","\n","S","/","N"," ","9">>

\* worlds that differ in what acquisition meets
AcquisitionWorlds(path) ==
    { [files |-> fs, HAS_PYMUPDF |-> mu, HAS_OCR |-> ocr] :
        fs \in {<<>>} \cup
               { [p \in {path} |-> [fitz |-> f, ocr |-> o]] :
                   f \in {FitzError, Ok(ShortText), Ok(LongText)},
                   o \in {OcrError, Ok(OcrText)} },
        mu \in BOOLEAN, ocr \in BOOLEAN }

\* worlds that differ in the text acquired
ExtractionWorlds(path) ==
    { [files |-> [p \in {path} |-> [fitz |-> FitzError, ocr |-> Ok(t)]],
       HAS_PYMUPDF |-> TRUE, HAS_OCR |-> TRUE] :
        t \in TextsOf(CertLines, MaxCertLines) }

DefaultLabName == <<"C","a","l","i","b","r","a","t","i","o","n"," ","L","a","b","o","r","a",
  "t","o","r","y">>

\* the default name of DCCAgent and a name a caller passes
LabNames == {DefaultLabName, <<"P","T","B">>}

InitCert ==
    /\ pc = "parse"
    /\ \/ /\ input_file \in CertPaths
          /\ world \in AcquisitionWorlds(input_file)
          /\ lab_name_arg \in LabNames
       \/ /\ input_file = <<"u","n","i","t","7",".","p","d","f">>
          /\ world \in ExtractionWorlds(input_file)
          /\ lab_name_arg = DefaultLabName
    /\ certificate = None
    /\ issues = <<>>
    /\ raised = None
    /\ text = <<>>
    /\ MeasIdle /\ PatternIdle /\ DateIdle
    /\ BatchIdle /\ UnitIdle /\ ProcessIdle /\ MoreIdle

ParseCertificate ==
    /\ pc = "parse"
    /\ \E r \in {parse_certificate(input_file, lab_name_arg, world)} :
           /\ certificate' = IF IsOk(r) THEN Some(r.value) ELSE None
           /\ raised' = r.raised
           /\ pc' = IF IsOk(r) THEN "parsed" ELSE "parse_raised"
    /\ UNCHANGED <<text, issues, meas_vars, pattern_vars, date_vars, file_vars, batch_vars, extra_vars>>

ValidateParsed ==
    /\ pc = "parsed"
    /\ issues' = validate_certificate(Get(certificate))
    /\ pc' = "parsed_validated"
    /\ UNCHANGED <<raised, text, certificate, meas_vars, pattern_vars, date_vars, file_vars, batch_vars, extra_vars>>

NextCert == ParseCertificate \/ ValidateParsed

SpecCert == InitCert /\ [][NextCert]_vars


\* the text acquisition returned for the source file
RawText == extract_from_file(input_file, world).value

\* C4: once the raw text is acquired, parse_certificate returns a certificate
\* and raises nothing; a pattern without match gives an absent or default
\* field, a captured date that no format parses an absent date, a captured
\* number that float() rejects an absent condition or a skipped measurement,
\* and the other fields and the measurements are extracted all the same
C4_ParseNeverFailsAfterAcquisition ==
    (pc \in {"parsed", "parse_raised"} /\ IsOk(extract_from_file(input_file, world))) =>
        /\ pc = "parsed" /\ raised = None /\ certificate # None
        /\ LET c == Get(certificate)
           IN  /\ c.raw_text = Some(RawText)
               /\ c.equipment.serial_number = extract_pattern(RawText, "serial_number")
               /\ c.equipment.manufacturer = extract_pattern(RawText, "manufacturer")
               /\ c.equipment.model = extract_pattern(RawText, "model")
               /\ c.measurement_results = extract_measurement_tables(RawText)
               /\ MatchingPatterns(RawText, "calibration_date") = {}
                     => c.calibration_date = None
               /\ MatchingPatterns(RawText, "certificate_date") = {}
                     => c.certificate_date = None

\* the text has no certificate number, a calibration date that is captured but
\* names no day of the calendar and a temperature that is no number; the
\* certificate is returned with the kN measurement found in the same text
C4_Witness ==
    /\ pc = "parsed"
    /\ MatchingPatterns(RawText, "certificate_number") = {}
    /\ extract_pattern(RawText, "calibration_date") # None
    /\ Get(certificate).calibration_date = None
    /\ extract_pattern(RawText, "temperature") # None
    /\ ~IsOk(float(ReplaceComma(Get(extract_pattern(RawText, "temperature")))))
    /\ Get(certificate).environmental_conditions = None
    /\ \E i \in DOMAIN Get(certificate).measurement_results :
          Get(certificate).measurement_results[i].measured_value.unit.symbol = <<"k","N">>

\* st is the name of the file at path without directory and extension
IsStemOf(st, path) ==
    \E a \in 1..(Len(path) + 1), b \in 0..Len(path) :
        LET ext == SubSeq(path, b + 1, Len(path))
        IN  /\ st = SubSeq(path, a, b)
            /\ a = 1 \/ path[a - 1] = "/"
            /\ \A i \in a..Len(path) : path[i] # "/"
            /\ \/ /\ ext # <<>>
                  /\ ext[1] = "." /\ Len(ext) >= 2 /\ st # <<>>
                  /\ \A i \in 2..Len(ext) : ext[i] # "."
               \/ /\ ext = <<>>
                  /\ \A i \in (a + 1)..(Len(path) - 1) : path[i] # "."

\* C7: when no certificate-number pattern matches the acquired text, the
\* certificate number is "UNKNOWN-" followed by the stem of the source file,
\* and validate_certificate returns a list that starts with "Certificate
\* number could not be extracted"
C7_UnknownNumberFromStem ==
    (pc \in {"parsed", "parsed_validated"}
        /\ MatchingPatterns(RawText, "certificate_number") = {}) =>
        /\ \E st \in {SubSeq(input_file, a, b) : a \in 1..Len(input_file),
                                                 b \in 1..Len(input_file)} :
              /\ IsStemOf(st, input_file)
              /\ Get(certificate).certificate_number = <<"U","N","K","N","O","W","N","-">> \o st
        /\ pc = "parsed_validated" =>
              (issues # <<>> /\ issues[1] = "Certificate number could not be extracted")

\* the file d/cert.v2.PNG, whose text has no certificate number, gets the
\* number UNKNOWN-cert.v2 and the validation starts with the message
C7_Witness ==
    /\ pc = "parsed_validated"
    /\ input_file = <<"d","/","c","e","r","t",".","v","2",".","P","N","G">>
    /\ MatchingPatterns(RawText, "certificate_number") = {}
    /\ Get(certificate).certificate_number = <<"U","N","K","N","O","W","N","-","c","e","r","t",".","v","2">>
    /\ issues[1] = "Certificate number could not be extracted"

(***************************************************************************)
(* xml_generator.py: the document is the tree of its elements.  An element *)
(* has a tag, attributes (pairs of name and value), a text and children;   *)
(* texts and attribute values are sequences of characters.                 *)
(***************************************************************************)
Element(tag, attrib, txt, children) ==
    [tag |-> tag, attrib |-> attrib, text |-> txt, children |-> children]

\* the one-character symbol of the ohm (U+03A9) is the single token "Ohm"
UNIT_TO_SI == {
    [symbol |-> <<"N">>, si |-> <<"\\","n","e","w","t","o","n">>],
    [symbol |-> <<"k","N">>, si |-> <<"\\","k","i","l","o","\\","n","e","w","t","o","n">>],
    [symbol |-> <<"M","N">>, si |-> <<"\\","m","e","g","a","\\","n","e","w","t","o","n">>],
    [symbol |-> <<"°","C">>, si |-> <<"\\","d","e","g","r","e","e","C","e","l","s","i","u",
        "s">>],
    [symbol |-> <<"K">>, si |-> <<"\\","k","e","l","v","i","n">>],
    [symbol |-> <<"P","a">>, si |-> <<"\\","p","a","s","c","a","l">>],
    [symbol |-> <<"k","P","a">>, si |-> <<"\\","k","i","l","o","\\","p","a","s","c","a",
        "l">>],
    [symbol |-> <<"M","P","a">>, si |-> <<"\\","m","e","g","a","\\","p","a","s","c","a",
        "l">>],
    [symbol |-> <<"b","a","r">>, si |-> <<"\\","b","a","r">>],
    [symbol |-> <<"m","b","a","r">>, si |-> <<"\\","m","i","l","l","i","\\","b","a","r">>],
    [symbol |-> <<"h","P","a">>, si |-> <<"\\","h","e","c","t","o","\\","p","a","s","c",
        "a","l">>],
    [symbol |-> <<"m">>, si |-> <<"\\","m","e","t","r","e">>],
    [symbol |-> <<"m","m">>, si |-> <<"\\","m","i","l","l","i","\\","m","e","t","r","e">>],
    [symbol |-> <<"µ","m">>, si |-> <<"\\","m","i","c","r","o","\\","m","e","t","r","e">>],
    [symbol |-> <<"n","m">>, si |-> <<"\\","n","a","n","o","\\","m","e","t","r","e">>],
    [symbol |-> <<"k","g">>, si |-> <<"\\","k","i","l","o","g","r","a","m">>],
    [symbol |-> <<"g">>, si |-> <<"\\","g","r","a","m">>],
    [symbol |-> <<"m","g">>, si |-> <<"\\","m","i","l","l","i","\\","g","r","a","m">>],
    [symbol |-> <<"V">>, si |-> <<"\\","v","o","l","t">>],
    [symbol |-> <<"m","V">>, si |-> <<"\\","m","i","l","l","i","\\","v","o","l","t">>],
    [symbol |-> <<"A">>, si |-> <<"\\","a","m","p","e","r","e">>],
    [symbol |-> <<"m","A">>, si |-> <<"\\","m","i","l","l","i","\\","a","m","p","e","r",
        "e">>],
    [symbol |-> <<"Ohm">>, si |-> <<"\\","o","h","m">>],
    [symbol |-> <<"s">>, si |-> <<"\\","s","e","c","o","n","d">>],
    [symbol |-> <<"m","s">>, si |-> <<"\\","m","i","l","l","i","\\","s","e","c","o","n",
        "d">>],
    [symbol |-> <<"m","i","n">>, si |-> <<"\\","m","i","n","u","t","e">>],
    [symbol |-> <<"h">>, si |-> <<"\\","h","o","u","r">>],
    [symbol |-> <<"H","z">>, si |-> <<"\\","h","e","r","t","z">>],
    [symbol |-> <<"k","H","z">>, si |-> <<"\\","k","i","l","o","\\","h","e","r","t","z">>],
    [symbol |-> <<"M","H","z">>, si |-> <<"\\","m","e","g","a","\\","h","e","r","t","z">>],
    [symbol |-> <<"%">>, si |-> <<"\\","p","e","r","c","e","n","t">>],
    [symbol |-> <<"%","r","h">>, si |-> <<"\\","p","e","r","c","e","n","t">>] }

\* self.UNIT_TO_SI.get(symbol, symbol)
UnitToSi(symbol) ==
    IF \E e \in UNIT_TO_SI : e.symbol = symbol
    THEN (CHOOSE e \in UNIT_TO_SI : e.symbol = symbol).si
    ELSE symbol

\* str() of a float: the shortest decimal that reads back, which for the
\* numbers of a few digits met here is the integer part, a dot and the
\* fraction, each "0" when empty
FloatStr(v) ==
    (IF v.int = <<>> THEN <<"0">> ELSE v.int) \o <<".">> \o
    (IF v.frac = <<>> THEN <<"0">> ELSE v.frac)

\* date.isoformat()
isoformat(dt) ==
    Digits(dt.year, 4) \o <<"-">> \o Digits(dt.month, 2) \o <<"-">> \o Digits(dt.day, 2)

Lang == <<"e","n">>

_create_text_element(tag, txt, lang) ==
    Element(tag, <<>>, <<>>,
            << Element("dcc:content", << <<"lang", lang>> >>, txt, <<>>) >>)

_create_value_element(value, tag) ==
    LET value_elem == Element("si:value", <<>>, FloatStr(value.value), <<>>)
        unit_elem == Element("si:unit", <<>>, UnitToSi(value.unit.symbol), <<>>)
        unc_value == Element("si:uncertainty", <<>>,
                             FloatStr(Get(value.expanded_uncertainty)), <<>>)
        cov_factor == IF value.coverage_factor # None
                      THEN << Element("si:coverageFactor", <<>>,
                                      FloatStr(Get(value.coverage_factor)), <<>>) >>
                      ELSE <<>>
        cov_prob == IF value.coverage_probability # None
                    THEN << Element("si:coverageProbability", <<>>,
                                    FloatStr(Get(value.coverage_probability)), <<>>) >>
                    ELSE <<>>
        uncertainty_elem == IF value.expanded_uncertainty # None
                            THEN << Element("si:expandedUnc", <<>>, <<>>,
                                            <<unc_value>> \o cov_factor \o cov_prob) >>
                            ELSE <<>>
    IN  Element(tag, <<>>, <<>>, <<value_elem, unit_elem>> \o uncertainty_elem)

\* today is what datetime.now().date() reads from the clock
_create_administrative_data(cert, today) ==
    LET software == Element("dcc:dccSoftware", <<>>, <<>>, <<
            Element("dcc:software", <<>>, <<>>, <<
                _create_text_element("dcc:name", <<"D","C","C"," ","C","V"," ","A","g","e",
                    "n","t">>, Lang),
                Element("dcc:release", <<>>, <<"0",".","1",".","0">>, <<>>) >>) >>)
        performance_date == IF cert.calibration_date # None
                            THEN isoformat(Get(cert.calibration_date))
                            ELSE isoformat(today)
        core == Element("dcc:coreData", <<>>, <<>>, <<
            Element("dcc:countryCodeISO3166_1", <<>>, <<"D","E">>, <<>>),
            Element("dcc:usedLangCodeISO639_1", <<>>, cert.language, <<>>),
            Element("dcc:mandatoryLangCodeISO639_1", <<>>, cert.language, <<>>),
            Element("dcc:uniqueIdentifier", <<>>, cert.certificate_number, <<>>),
            Element("dcc:beginPerformanceDate", <<>>, performance_date, <<>>),
            Element("dcc:endPerformanceDate", <<>>, performance_date, <<>>),
            Element("dcc:performanceLocation", <<>>, <<"l","a","b","o","r","a","t","o","r",
                "y">>, <<>>) >>)
        manufacturer == IF ~Falsy(cert.equipment.manufacturer)
            THEN << Element("dcc:manufacturer", <<>>, <<>>, <<
                      _create_text_element("dcc:name", Get(cert.equipment.manufacturer),
                                           Lang) >>) >>
            ELSE <<>>
        model == IF ~Falsy(cert.equipment.model)
            THEN << Element("dcc:model", <<>>, Get(cert.equipment.model), <<>>) >>
            ELSE <<>>
        identifications == IF ~Falsy(cert.equipment.serial_number)
            THEN << Element("dcc:identifications", <<>>, <<>>, <<
                      Element("dcc:identification", <<>>, <<>>, <<
                         _create_text_element("dcc:issuer", <<"m","a","n","u","f","a","c",
                             "t","u","r","e","r">>, Lang),
                         _create_text_element("dcc:value",
                                              Get(cert.equipment.serial_number), Lang),
                         Element("dcc:type", <<>>, <<"s","e","r","i","a","l","N","u","m",
                             "b","e","r">>, <<>>) >>) >>) >>
            ELSE <<>>
        items == Element("dcc:items", <<>>, <<>>, <<
            Element("dcc:item", <<>>, <<>>,
                    << _create_text_element("dcc:name", cert.equipment.name, Lang) >>
                    \o manufacturer \o model \o identifications) >>)
        addr == Get(cert.calibration_laboratory.address)
        AddressPart(tag, field) ==
            IF ~Falsy(field) THEN << Element(tag, <<>>, Get(field), <<>>) >> ELSE <<>>
        location == IF cert.calibration_laboratory.address # None
            THEN << Element("dcc:location", <<>>, <<>>,
                      AddressPart("dcc:street", addr.street)
                      \o AddressPart("dcc:city", addr.city)
                      \o AddressPart("dcc:postCode", addr.postal_code)
                      \o AddressPart("dcc:countryCode", addr.country_code)) >>
            ELSE <<>>
        cal_lab == Element("dcc:calibrationLaboratory", <<>>, <<>>, <<
            Element("dcc:contact", <<>>, <<>>,
                    << _create_text_element("dcc:name", cert.calibration_laboratory.name,
                                            Lang) >> \o location) >>)
        customer == IF cert.customer # None
            THEN << Element("dcc:respPersons", <<>>, <<>>, <<
                      Element("dcc:respPerson", <<>>, <<>>, <<
                         Element("dcc:person", <<>>, <<>>, <<
                            _create_text_element("dcc:name", Get(cert.customer).name,
                                                 Lang) >>),
                         Element("dcc:role", <<>>, <<"c","u","s","t","o","m","e",
                             "r">>, <<>>) >>) >>) >>
            ELSE <<>>
    IN  Element("dcc:administrativeData", <<>>, <<>>,
                <<software, core, items, cal_lab>> \o customer)

_add_influence_conditions(conditions) ==
    LET InfluenceCondition(value, ref_id, name) ==
            IF value # None
            THEN << Element("dcc:influenceCondition", << <<"refId", ref_id>> >>, <<>>, <<
                      _create_text_element("dcc:name", name, Lang),
                      Element("dcc:data", <<>>, <<>>, <<
                         Element("dcc:quantity", <<>>, <<>>,
                                 << _create_value_element(Get(value), "si:real") >>) >>)
                    >>) >>
            ELSE <<>>
    IN  Element("dcc:influenceConditions", <<>>, <<>>,
            InfluenceCondition(conditions.temperature, <<"t","e","m","p","e","r","a","t",
                "u","r","e">>,
                               <<"A","m","b","i","e","n","t"," ","T","e","m","p","e","r",
                                   "a","t","u","r","e">>)
            \o InfluenceCondition(conditions.humidity, <<"h","u","m","i","d","i","t","y">>,
                                  <<"R","e","l","a","t","i","v","e"," ","H","u","m","i",
                                      "d","i","t","y">>)
            \o InfluenceCondition(conditions.pressure, <<"p","r","e","s","s","u","r","e">>,
                                  <<"A","t","m","o","s","p","h","e","r","i","c"," ","P",
                                      "r","e","s","s","u","r","e">>))

\* the quantities of a plausible bug: the deviation is looked at only when
\* there is no reference value (elif for the second if)
_add_measurement_quantity_elif(result, index) ==
    LET Quantity(ref_id, name, value) ==
            Element("dcc:quantity", << <<"refId", ref_id \o Digits(index, 1)>> >>, <<>>,
                    << _create_text_element("dcc:name", name, Lang),
                       _create_value_element(value, "si:real") >>)
    IN  << Quantity(<<"m","e","a","s","u","r","e","m","e","n","t",
        "_">>, result.name, result.measured_value) >>
        \o (IF result.reference_value # None
            THEN << Quantity(<<"r","e","f","e","r","e","n","c","e",
                "_">>, result.name \o <<" ","(","R","e","f","e","r","e","n","c","e",")">>,
                             Get(result.reference_value)) >>
            ELSE IF result.deviation # None
            THEN << Quantity(<<"d","e","v","i","a","t","i","o","n",
                "_">>, result.name \o <<" ","(","D","e","v","i","a","t","i","o","n",")">>,
                             Get(result.deviation)) >>
            ELSE <<>>)

\* the quantities appended to the data list for the result at position index
_add_measurement_quantity(result, index) ==
    LET Quantity(ref_id, name, value) ==
            Element("dcc:quantity", << <<"refId", ref_id \o Digits(index, 1)>> >>, <<>>,
                    << _create_text_element("dcc:name", name, Lang),
                       _create_value_element(value, "si:real") >>)
    IN  << Quantity(<<"m","e","a","s","u","r","e","m","e","n","t",
        "_">>, result.name, result.measured_value) >>
        \o (IF result.reference_value # None
            THEN << Quantity(<<"r","e","f","e","r","e","n","c","e",
                "_">>, result.name \o <<" ","(","R","e","f","e","r","e","n","c","e",")">>,
                             Get(result.reference_value)) >>
            ELSE <<>>)
        \o (IF result.deviation # None
            THEN << Quantity(<<"d","e","v","i","a","t","i","o","n",
                "_">>, result.name \o <<" ","(","D","e","v","i","a","t","i","o","n",")">>,
                             Get(result.deviation)) >>
            ELSE <<>>)

_create_measurement_results(cert) ==
    LET methods == IF ~Falsy(cert.measurement_procedure)
            THEN << Element("dcc:usedMethods", <<>>, <<>>, <<
                      Element("dcc:usedMethod", <<>>, <<>>, <<
                         _create_text_element("dcc:name", Get(cert.measurement_procedure),
                                              Lang) >>) >>) >>
            ELSE <<>>
        influence == IF cert.environmental_conditions # None
            THEN << _add_influence_conditions(Get(cert.environmental_conditions)) >>
            ELSE <<>>
        data_list == Element("dcc:list", <<>>, <<>>,
            Flatten([i \in DOMAIN cert.measurement_results |->
                        _add_measurement_quantity(cert.measurement_results[i], i)]))
    IN  Element("dcc:measurementResults", <<>>, <<>>, <<
            Element("dcc:measurementResult", <<>>, <<>>,
                    << _create_text_element("dcc:name", <<"C","a","l","i","b","r","a","t",
                        "i","o","n"," ","R","e","s","u","l","t","s">>, Lang) >>
                    \o methods \o influence
                    \o << Element("dcc:data", <<>>, <<>>, <<data_list>>) >>) >>)

MaxRawText == 2000
SCHEMA_LOCATION == <<"h","t","t","p","s",":","/","/","p","t","b",".","d","e","/","d","c",
    "c"," ","h","t","t","p","s",":","/","/","p","t","b",".","d","e","/","d","c","c","/",
    "v","3",".","0",".","0","/","d","c","c",".","x","s","d">>

\* a generate that makes the comment section for the remarks only
generate_remarks_only(cert, include_raw, today) ==
    Element("dcc:digitalCalibrationCertificate",
            << <<"xsi:schemaLocation", SCHEMA_LOCATION>> >>, <<>>,
            << _create_administrative_data(cert, today),
               _create_measurement_results(cert) >>
            \o (IF ~Falsy(cert.remarks)
                THEN << Element("dcc:comment", <<>>, <<>>,
                                << _create_text_element("dcc:content", Get(cert.remarks),
                                                        Lang) >>) >>
                ELSE <<>>))

generate(cert, include_raw, today) ==
    LET with_raw == include_raw /\ ~Falsy(cert.raw_text)
        raw == Get(cert.raw_text)
        remarks == IF ~Falsy(cert.remarks)
                   THEN << _create_text_element("dcc:content", Get(cert.remarks), Lang) >>
                   ELSE <<>>
        raw_comment == IF with_raw
            THEN << Element("dcc:content", << <<"lang", cert.language>> >>,
                            <<"R","a","w"," ","e","x","t","r","a","c","t","e","d"," ","t",
                                "e","x","t",":","\n">>
                            \o SubSeq(raw, 1, IF Len(raw) < MaxRawText THEN Len(raw)
                                              ELSE MaxRawText), <<>>) >>
            ELSE <<>>
        comments == IF ~Falsy(cert.remarks) \/ with_raw
                    THEN << Element("dcc:comment", <<>>, <<>>, remarks \o raw_comment) >>
                    ELSE <<>>
    IN  Element("dcc:digitalCalibrationCertificate",
                << <<"xsi:schemaLocation", SCHEMA_LOCATION>> >>, <<>>,
                << _create_administrative_data(cert, today),
                   _create_measurement_results(cert) >> \o comments)

\* lxml takes no string with a control character other than tab, newline
\* and carriage return; of those the texts here can hold the form feed
ControlChars == {"\f"}

XmlCompatible(str) == \A i \in DOMAIN str : str[i] \notin ControlChars

RECURSIVE AllCompatible(_)
AllCompatible(elem) ==
    /\ XmlCompatible(elem.text)
    /\ \A i \in DOMAIN elem.attrib : XmlCompatible(elem.attrib[i][2])
    /\ \A i \in DOMAIN elem.children : AllCompatible(elem.children[i])

XmlDeclaration == <<"<","?","x","m","l"," ","v","e","r","s","i","o","n","=","\"","1",".",
    "0","\""," ","e","n","c","o","d","i","n","g","=","\"","U","T","F","-","8","\"","?",">",
    "\n">>

\* the string returned stands as its declaration and the tree serialized
\* etree.tostring(root, ...): lxml takes no text with a control character
Serialized(root, pretty_print) ==
    IF ~AllCompatible(root)
    THEN Raise("ValueError", <<"A","l","l"," ","s","t","r","i","n","g","s"," ","m","u",
        "s","t"," ","b","e"," ","X","M","L"," ","c","o","m","p","a","t","i","b","l",
        "e",":"," ","U","n","i","c","o","d","e"," ","o","r"," ","A","S","C","I","I",
        ","," ","n","o"," ","N","U","L","L"," ","b","y","t","e","s"," ","o","r"," ",
        "c","o","n","t","r","o","l"," ","c","h","a","r","a","c","t","e","r","s">>)
    ELSE Ok([declaration |-> XmlDeclaration, body |-> root,
             pretty_print |-> pretty_print])

to_string(cert, pretty_print, include_raw, today) ==
    Serialized(generate(cert, include_raw, today), pretty_print)

(***************************************************************************)
(* agent.py: process.  A disk d holds the directories made and the files   *)
(* written, each file with its content.                                    *)
(***************************************************************************)
Address(street, city, postal_code, country, country_code) ==
    [street |-> street, city |-> city, postal_code |-> postal_code,
     country |-> country, country_code |-> country_code]

\* the directories above path: Path.parent and its parents
Parents(path) ==
    { SubSeq(path, 1, i - 1) : i \in {j \in DOMAIN path : j > 1 /\ path[j] = "/"} }

\* Path.mkdir(parents=True, exist_ok=True)
mkdir(d, path) == [d EXCEPT !.dirs = @ \cup Parents(path) \cup {path}]

\* output_path.parent.mkdir(parents=True, exist_ok=True), then the file is
\* opened for writing, which replaces a file already at that path
WriteFile(d, path, content) ==
    [dirs |-> d.dirs \cup Parents(path), files |-> (path :> content) @@ d.files]

\* the amendment of a plausible bug: only the name of lab_info is taken over
WithLabName(cert, lab) ==
    IF lab # None THEN [cert EXCEPT !.calibration_laboratory.name = Get(lab).name] ELSE cert

\* if lab_info: certificate.calibration_laboratory = lab_info
WithLab(cert, lab) ==
    IF lab # None THEN [cert EXCEPT !.calibration_laboratory = Get(lab)] ELSE cert

\* if customer_info: certificate.customer = customer_info
WithCustomer(cert, customer) ==
    IF customer # None THEN [cert EXCEPT !.customer = customer] ELSE cert

\* if output_path: the XML is written to the file; return xml_content
Written(xml_content, out_path, d) ==
    IF ~IsOk(xml_content)
    THEN [raised |-> xml_content.raised, value |-> None, disk |-> d]
    ELSE [raised |-> None, value |-> xml_content.value,
          disk |-> IF ~Falsy(out_path)
                   THEN WriteFile(d, Get(out_path), xml_content.value) ELSE d]

\* the process of a plausible bug: the output file is opened for writing
\* before the certificate is parsed
GeneratedFileFirst(parsed, out_path, lab, customer, include_raw, pretty_print, d, today) ==
    IF ~IsOk(parsed)
    THEN [raised |-> parsed.raised, value |-> None,
          disk |-> IF ~Falsy(out_path) THEN WriteFile(d, Get(out_path), <<>>) ELSE d]
    ELSE Written(to_string(WithCustomer(WithLab(parsed.value, lab), customer),
                           pretty_print, include_raw, today),
                 out_path, d)

\* the XML of the certificate parsed; an exception of parse_certificate
\* leaves process
Generated(parsed, out_path, lab, customer, include_raw, pretty_print, d, today) ==
    IF ~IsOk(parsed) THEN [raised |-> parsed.raised, value |-> None, disk |-> d]
    ELSE Written(to_string(WithCustomer(WithLab(parsed.value, lab), customer),
                           pretty_print, include_raw, today),
                 out_path, d)

\* the result carries the disk as process leaves it
process(file_path, out_path, lab, customer, include_raw, pretty_print, w, d, today) ==
    Generated(parse_certificate(file_path,
                                IF lab # None THEN Get(lab).name ELSE DefaultLabName, w),
              out_path, lab, customer, include_raw, pretty_print, d, today)

(***************************************************************************)
(* agent.py: batch_process                                                 *)
(***************************************************************************)
ErrorPrefix == <<"E","R","R","O","R",":"," ">>
OutputSuffix == <<"_","d","c","c",".","x","m","l">>

\* output_dir / f"{input_path.stem}_dcc.xml"
OutputPath(dir, input_path) == dir \o <<"/">> \o PathStem(input_path) \o OutputSuffix

\* a loop body without the except clause: the exception leaves batch_process
TryProcessNoExcept(res, input_path, output_path, r) ==
    IF IsOk(r) THEN [results |-> (input_path :> output_path) @@ res, pc |-> "batch_loop"]
    ELSE [results |-> res, pc |-> "batch_raised"]

\* try: self.process(...); results[str(input_path)] = str(output_path)
\* except Exception as e: results[str(input_path)] = f"ERROR: {str(e)}"
TryProcess(res, input_path, output_path, r) ==
    [results |-> (input_path :> (IF IsOk(r) THEN output_path
                                 ELSE ErrorPrefix \o Get(r.raised).msg)) @@ res,
     pc |-> "batch_loop"]

(***************************************************************************)
(* SpecBatch: batch_process over a list of input files.  The loop is one   *)
(* thread that runs until the list is exhausted.                           *)
(***************************************************************************)
MaxBatch == 2

\* two files of one directory that differ in the extension only, the second
\* a scan whose text ends with a form feed; a scan that OCR fails on, a file
\* of another kind, and a path where no file is
CertPdf == <<"i","n","/","c","e","r","t",".","p","d","f">>
CertPng == <<"i","n","/","c","e","r","t",".","p","n","g">>
ScanTif == <<"i","n","/","s","c","a","n",".","t","i","f">>
NotesTxt == <<"n","o","t","e","s",".","t","x","t">>
GonePdf == <<"i","n","/","g","o","n","e",".","p","d","f">>

BatchPaths == {CertPdf, CertPng, ScanTif, NotesTxt, GonePdf}

BatchWorld ==
    [files |->
        (CertPdf :> [fitz |-> Ok(ShortText), ocr |-> Ok(<<"C","e","r","t","i","f","i","c",
            "a","t","e"," ","N","o",":"," ","A","-","1","\n","F",":"," ","2",",","5"," ",
            "k","N","\n">>)])
        @@ (CertPng :> [fitz |-> FitzError, ocr |-> Ok(<<"S","/","N"," ","7","\n","\f">>)])
        @@ (ScanTif :> [fitz |-> FitzError, ocr |-> OcrError])
        @@ (NotesTxt :> [fitz |-> FitzError, ocr |-> OcrError]),
     HAS_PYMUPDF |-> TRUE, HAS_OCR |-> TRUE]

\* lab_info and include_raw_text as the caller passes them
BatchOptions ==
    { <<None, FALSE>>,
      <<Some([name |-> <<"P","T","B">>,
              address |-> Some(Address(None, Some(<<"B","r","a","u","n","s","c","h","w",
                  "e","i","g">>), None, None,
                                       Some(<<"D","E">>))),
              contact |-> None, accreditation_number |-> None]), TRUE>> }

\* the days the clock can show while the batch runs; it never goes back
Today == {date(2026, 12, 31), date(2027, 1, 1)}
NotBefore(d1, d2) ==
    \/ d1.year > d2.year
    \/ d1.year = d2.year /\ d1.month > d2.month
    \/ d1.year = d2.year /\ d1.month = d2.month /\ d1.day >= d2.day

EmptyDisk == [dirs |-> {}, files |-> <<>>]

InitBatch ==
    /\ pc = "batch"
    /\ input_files \in UNION {[1..n -> BatchPaths] : n \in 0..MaxBatch}
    /\ output_dir = <<"o","u","t">>
    /\ \E o \in BatchOptions : lab_info = o[1] /\ include_raw_text = o[2]
    /\ world = BatchWorld
    /\ input_file = None
    /\ batch_index = 0
    /\ batch_results = <<>>
    /\ disk = EmptyDisk
    /\ processed = <<>>
    /\ clock = date(2026, 12, 31)
    /\ raised = None
    /\ text = <<>>
    /\ MeasIdle /\ PatternIdle /\ DateIdle /\ CertIdle /\ ExtraIdle

\* output_dir.mkdir(parents=True, exist_ok=True); results = {}
BatchStart ==
    /\ pc = "batch"
    /\ disk' = mkdir(disk, output_dir)
    /\ batch_results' = <<>>
    /\ pc' = "batch_loop"
    /\ UNCHANGED <<raised, text, meas_vars, pattern_vars, date_vars, cert_vars, file_vars,
                   input_files, output_dir, lab_info, include_raw_text, batch_index,
                   processed, clock, extra_vars>>

\* one pass of the for loop
BatchIteration ==
    /\ pc = "batch_loop"
    /\ batch_index < Len(input_files)
    /\ LET input_path == input_files[batch_index + 1]
           output_path == OutputPath(output_dir, input_path)
       IN  \E today \in {d \in Today : NotBefore(d, clock)} :
              \E r \in {process(input_path, Some(output_path), lab_info, None,
                                 include_raw_text, TRUE, world, disk, today)} :
              LET step == TryProcess(batch_results, input_path, output_path, r)
              IN  /\ disk' = r.disk
                  /\ batch_results' = step.results
                  /\ pc' = step.pc
                  /\ processed' = Append(processed,
                        [input |-> input_path, raised |-> r.raised, value |-> r.value])
                  /\ input_file' = input_path
                  /\ clock' = today
    /\ batch_index' = batch_index + 1
    /\ UNCHANGED <<raised, text, meas_vars, pattern_vars, date_vars, cert_vars, world,
                   input_files, output_dir, lab_info, include_raw_text, extra_vars>>

\* return results
BatchReturn ==
    /\ pc = "batch_loop"
    /\ batch_index = Len(input_files)
    /\ pc' = "batch_done"
    /\ UNCHANGED <<raised, text, meas_vars, pattern_vars, date_vars, cert_vars, file_vars,
                   batch_vars, extra_vars>>

NextBatch == BatchStart \/ BatchIteration \/ BatchReturn

\* the control flow of batch_process alone: the call starts, the loop goes
\* to the next input, the call returns.  Every step of NextBatch is such a
\* step, and the thread running batch_process keeps taking them.
BatchControl ==
    \/ pc = "batch" /\ pc' = "batch_loop" /\ batch_index' = batch_index
    \/ pc = "batch_loop" /\ batch_index < Len(input_files)
          /\ pc' = "batch_loop" /\ batch_index' = batch_index + 1
    \/ pc = "batch_loop" /\ batch_index = Len(input_files)
          /\ pc' = "batch_done" /\ batch_index' = batch_index

SpecBatch == InitBatch /\ [][NextBatch]_vars /\ WF_<<pc, batch_index>>(BatchControl)

\* the input fails before any extraction: the file is missing, its extension
\* is not supported, or acquisition raises
InputFails(path) == ~IsOk(extract_from_file(path, world))

\* the entry of the returned mapping for the i-th input is right
EntryFor(i) ==
    LET p == input_files[i]
    IN  /\ processed[i].input = p
        /\ InputFails(p) => processed[i].raised # None
        /\ processed[i].raised = None =>
              \E st \in {SubSeq(p, a, b) : a \in 1..Len(p), b \in 1..Len(p)} :
                 /\ IsStemOf(st, p)
                 /\ batch_results[p] = output_dir \o <<"/">> \o st \o <<"_","d","c","c",
                     ".","x","m","l">>
        /\ processed[i].raised # None => StartsWith(batch_results[p], <<"E","R","R","O",
            "R",":"," ">>)

\* no exception leaves the loop, the inputs are processed in the given
\* order and the mapping has the entries of the inputs processed so far
BatchProgress ==
    /\ pc # "batch_raised"
    /\ pc \in {"batch_loop", "batch_done"} =>
          /\ Len(processed) = batch_index
          /\ DOMAIN batch_results = {input_files[i] : i \in 1..batch_index}
          /\ \A i \in 1..batch_index : EntryFor(i)
    /\ pc = "batch_done" => batch_index = Len(input_files)

\* C8: batch_process runs to completion whatever inputs fail; it processes
\* the inputs in the given order, goes on after a failing input, and returns
\* a mapping with an entry for every input path: <output_dir>/<stem>_dcc.xml
\* for an input that succeeded, a string starting with "ERROR: " for one
\* that failed (missing file, unsupported extension, acquisition error)
C8_BatchCompletesWithEntryPerInput ==
    []BatchProgress /\ <>(pc = "batch_done")

\* the first input is missing, the second is processed all the same and
\* succeeds; the mapping returned has the error and the output path
C8_Witness ==
    /\ pc = "batch_done"
    /\ input_files = <<GonePdf, CertPdf>>
    /\ StartsWith(batch_results[GonePdf], <<"E","R","R","O","R",":"," ","F","i","l","e",
        " ","n","o","t"," ","f","o","u","n","d",":"," ","i","n","/","g","o","n","e",".",
        "p","d","f">>)
    /\ batch_results[CertPdf] = <<"o","u","t","/","c","e","r","t","_","d","c","c",".","x",
        "m","l">>
    /\ processed[2].raised = None

\* the runs of the batch that returned without exception
Successful == {i \in DOMAIN processed : processed[i].raised = None}

\* the last successful run for the input path p
LastRun(p) ==
    CHOOSE i \in Successful :
        processed[i].input = p /\ \A j \in Successful : processed[j].input = p => j <= i

\* C9: after the batch every input reported as successful has its own output
\* file holding the XML generated from it: there are as many output files
\* as successful inputs, and none is overwritten by another input's output
C9_OneOutputFilePerSuccessfulInput ==
    pc = "batch_done" =>
        /\ Cardinality(DOMAIN disk.files)
              = Cardinality({processed[i].input : i \in Successful})
        /\ \A i \in Successful :
              LET p == processed[i].input
              IN  /\ batch_results[p] \in DOMAIN disk.files
                  /\ disk.files[batch_results[p]] = processed[LastRun(p)].value


\* the pass of the loop just made ended with an exception of process
InputFailed ==
    /\ Len(processed') = Len(processed) + 1
    /\ processed'[Len(processed')].raised # None

\* a call of process with an output path, made on the files as they are:
\* when it ends with an exception it leaves them as they are
DirectCallFailedLeavesTheFiles ==
    \A p \in BatchPaths, pretty_print \in BOOLEAN :
        LET r == process(p, Some(OutputPath(<<"o","u","t">>, p)), lab_info, None,
                         include_raw_text, pretty_print, world, disk, clock)
        IN  r.raised # None => r.disk = disk

\* C29: when process fails for an input (missing file, unsupported format,
\* acquisition error), it leaves the directories and the files as they were,
\* so no output file is created or modified: in a call made directly on any
\* files the batch can leave, and in each pass of the loop of batch_process
C29_FailedInputLeavesTheFilesAlone ==
    [][InputFailed => disk' = disk]_vars /\ []DirectCallFailedLeavesTheFiles

\* the first input gave its output file, the second failed in OCR: the
\* output directory holds the one file
C29_Witness ==
    /\ pc = "batch_done"
    /\ input_files = <<CertPdf, ScanTif>>
    /\ processed[1].raised = None
    /\ processed[2].raised = OcrError.raised
    /\ DOMAIN disk.files = {OutputPath(output_dir, CertPdf)}
    /\ disk.files[OutputPath(output_dir, CertPdf)] = processed[1].value

(***************************************************************************)
(* SpecUnits: a unit symbol is resolved by get_unit (models.py) and the    *)
(* unit's symbol is translated by the serializer (UNIT_TO_SI.get).         *)
(* COMMON_UNITS is a module-level dict: the variable common_units holds it *)
(* as the call leaves it.                                                  *)
(***************************************************************************)
KeysOfCommonUnits == {u.symbol : u \in COMMON_UNITS}
KeysOfUnitToSi == {e.symbol : e \in UNIT_TO_SI}

\* symbols in neither table: the empty string, other case, a blank after the
\* symbol, units the tables do not know
UnknownSymbols ==
    { <<>>, <<"k","n">>, <<"N"," ">>, <<"l","b","f">>, <<"°">>, <<"O","h","m">>,
      <<"k","N","\n">> }

UnitSymbols == KeysOfCommonUnits \cup KeysOfUnitToSi \cup UnknownSymbols

InitUnits ==
    /\ pc = "lookup"
    /\ lookup_symbol \in UnitSymbols
    /\ lookup_unit = None
    /\ lookup_si = None
    /\ common_units = COMMON_UNITS
    /\ raised = None
    /\ text = <<>>
    /\ MeasIdle /\ PatternIdle /\ DateIdle /\ CertIdle /\ FileIdle /\ BatchIdle
    /\ CallerIdle /\ ProcessIdle /\ MoreIdle

\* unit = get_unit(symbol)
GetUnit ==
    /\ pc = "lookup"
    /\ \E r \in {get_unit_call(common_units, lookup_symbol)} :
          /\ lookup_unit' = Some(r.unit)
          /\ common_units' = r.table
    /\ pc' = "resolved"
    /\ UNCHANGED <<raised, text, meas_vars, pattern_vars, date_vars, cert_vars, file_vars,
                   batch_vars, caller_vars, process_vars, more_vars, lookup_symbol,
                   lookup_si>>

\* unit_elem.text = self.UNIT_TO_SI.get(value.unit.symbol, value.unit.symbol)
SerializeUnit ==
    /\ pc = "resolved"
    /\ lookup_si' = Some(UnitToSi(Get(lookup_unit).symbol))
    /\ pc' = "serialized"
    /\ UNCHANGED <<raised, text, meas_vars, pattern_vars, date_vars, cert_vars, file_vars,
                   batch_vars, caller_vars, process_vars, more_vars, lookup_symbol,
                   lookup_unit, common_units>>

NextUnits == GetUnit \/ SerializeUnit

SpecUnits == InitUnits /\ [][NextUnits]_vars

\* C11: the Unit Registry table and the serializer's SI-token table have the
\* same keys: every key of COMMON_UNITS is a key of UNIT_TO_SI and every key
\* of UNIT_TO_SI is a key of COMMON_UNITS
C11_UnitTablesInSync ==
    {u.symbol : u \in common_units} = KeysOfUnitToSi

\* C12: get_unit returns, without an error, a unit whose symbol is the string
\* looked up: the table's entry when the string is a key of the table, else a
\* unit with the symbol only, name and SI base absent; the table is as it was
C12_GetUnitResolvesEverySymbol ==
    pc \in {"resolved", "serialized"} =>
        /\ raised = None
        /\ Get(lookup_unit).symbol = lookup_symbol
        /\ \A u \in COMMON_UNITS : u.symbol = lookup_symbol => Get(lookup_unit) = u
        /\ lookup_symbol \notin KeysOfCommonUnits =>
              Get(lookup_unit) = [symbol |-> lookup_symbol, name |-> None, si_base |-> None]
        /\ common_units = COMMON_UNITS

\* an unknown symbol has been resolved to a symbol-only unit, and a known one
\* to its entry
C12_Witness ==
    /\ pc = "resolved"
    /\ lookup_symbol = <<"l","b","f">>
    /\ Get(lookup_unit).name = None

ConditionNumber(str) ==
    IF str = None \/ Get(str) = <<>> \/ ~IsOk(float(ReplaceComma(Get(str)))) THEN None
    ELSE Some(float(ReplaceComma(Get(str))).value)

\* the first pressure pattern that matches the text, case ignored
PressureFound(s) == PatternLoop(PATTERNS["pressure"], s, IgnoreCase, 1)

PressureNumber(s) ==
    IF PressureFound(s).idx = 0 THEN None
    ELSE ConditionNumber(GroupOf(PressureFound(s).match, s, 1))

\* C14: extract_environmental_conditions returns nothing exactly when none of
\* temperature, humidity and pressure was extracted and parsed as a number; a
\* conditions object has at least one of the three fields; a temperature has
\* the unit symbol "°C" and a humidity the unit symbol "%rh"
C14_ConditionsAbsentIffNothingExtracted ==
    pc \in {"parsed", "parsed_validated"} =>
        LET env == Get(certificate).environmental_conditions
            t == ConditionNumber(extract_pattern(RawText, "temperature"))
            h == ConditionNumber(extract_pattern(RawText, "humidity"))
            p == PressureNumber(RawText)
        IN  /\ env = None <=> (t = None /\ h = None /\ p = None)
            /\ env # None =>
                  /\ Get(env).temperature # None \/ Get(env).humidity # None
                        \/ Get(env).pressure # None
                  /\ Get(env).temperature = None <=> t = None
                  /\ Get(env).humidity = None <=> h = None
                  /\ Get(env).pressure = None <=> p = None
                  /\ Get(env).temperature # None =>
                        /\ Get(Get(env).temperature).value = Get(t)
                        /\ Get(Get(env).temperature).unit.symbol = <<"°","C">>
                  /\ Get(env).humidity # None =>
                        /\ Get(Get(env).humidity).value = Get(h)
                        /\ Get(Get(env).humidity).unit.symbol = <<"%","r","h">>

\* a temperature is captured but is no number, humidity and pressure are
\* extracted: the conditions hold these two and no temperature
C14_Witness ==
    /\ pc = "parsed"
    /\ extract_pattern(RawText, "temperature") # None
    /\ Get(certificate).environmental_conditions # None
    /\ Get(Get(certificate).environmental_conditions).temperature = None
    /\ Get(Get(certificate).environmental_conditions).humidity # None
    /\ Get(Get(Get(certificate).environmental_conditions).pressure).unit.symbol
          = <<"h","P","a">>

(***************************************************************************)
(* SpecProcess: DCCAgent.process called on one file, without output path.  *)
(***************************************************************************)
InitProcess ==
    /\ pc = "process"
    /\ input_file \in CertPaths
    /\ world \in AcquisitionWorlds(input_file)
    /\ lab_name_arg = DefaultLabName
    /\ returned_xml = None
    /\ library_calls = <<>>
    /\ raised = None
    /\ text = <<>>
    /\ MeasIdle /\ PatternIdle /\ DateIdle /\ CertIdle /\ BatchIdle /\ UnitIdle
    /\ MoreIdle

\* the call as ProcessFile makes it
ProcessCall(file_path, w, today) ==
    process(file_path, None, None, None, FALSE, TRUE, w, EmptyDisk, today)

\* xml_content = agent.process(input_file); an exception leaves the call
ProcessFile ==
    /\ pc = "process"
    /\ \E today \in Today :
          \E r \in {ProcessCall(input_file, world, today)} :
             /\ returned_xml' = r.value
             /\ raised' = r.raised
             /\ pc' = IF r.raised = None THEN "processed" ELSE "process_raised"
    /\ library_calls' = extract_from_file_calls(input_file, world)
    /\ UNCHANGED <<text, meas_vars, pattern_vars, date_vars, cert_vars, file_vars,
                   batch_vars, unit_vars, caller_vars, more_vars>>

NextProcess == ProcessFile

SpecProcess == InitProcess /\ [][NextProcess]_vars

\* the extension of each source path in lower case, as the paths are spelled
ExtensionOf(path) ==
    CASE path = <<"u","n","i","t","7",".","p","d","f">> -> <<".","p","d","f">>
      [] path = <<"d","/","c","e","r","t",".","v","2",".","P","N","G">> -> <<".","p","n","g">>
      [] path = <<"n","o","t","e","s",".","t","x","t">> -> <<".","t","x","t">>
      [] path = <<"s","c","a","n","s","/",".","p","d","f">> -> <<>>

SupportedExtensions ==
    { <<".","p","d","f">>, <<".","p","n","g">>, <<".","j","p","g">>, <<".","j","p","e","g">>,
      <<".","t","i","f","f">>, <<".","t","i","f">>, <<".","b","m","p">> }

\* C15: a source path where no file is ends process with a file-not-found
\* error, whatever its extension; a file whose extension in lower case is
\* none of pdf, png, jpg, jpeg, tiff, tif, bmp ends it with an
\* unsupported-format error; the caller gets the error as extract_from_file
\* raised it, and no library was called to acquire text
C15_InputErrorsReachTheCaller ==
    pc \in {"processed", "process_raised"} =>
        /\ input_file \notin DOMAIN world.files =>
              /\ pc = "process_raised"
              /\ raised = Some([type |-> "FileNotFoundError",
                                msg |-> <<"F","i","l","e"," ","n","o","t"," ","f","o","u",
                                          "n","d",":"," ">> \o input_file])
              /\ returned_xml = None
              /\ library_calls = <<>>
        /\ (input_file \in DOMAIN world.files
               /\ ExtensionOf(input_file) \notin SupportedExtensions) =>
              /\ pc = "process_raised"
              /\ raised = Some([type |-> "ValueError",
                                msg |-> <<"U","n","s","u","p","p","o","r","t","e","d"," ",
                                          "f","i","l","e"," ","f","o","r","m","a","t",":",
                                          " ">> \o ExtensionOf(input_file)])
              /\ returned_xml = None
              /\ library_calls = <<>>

\* no file is at a path with an unsupported extension, both libraries are
\* installed: the error is the file-not-found one
C15_Witness ==
    /\ pc = "process_raised"
    /\ input_file = <<"n","o","t","e","s",".","t","x","t">>
    /\ input_file \notin DOMAIN world.files
    /\ world.HAS_PYMUPDF /\ world.HAS_OCR
    /\ Get(raised).type = "FileNotFoundError"

(***************************************************************************)
(* cli.py: main.  The command line is parsed already; the file system is   *)
(* the files of w and the directories of dirs, each with the entries that  *)
(* iterdir yields.                                                         *)
(***************************************************************************)
supported_extensions ==
    { <<".","p","d","f">>, <<".","p","n","g">>, <<".","j","p","g">>, <<".","j","p","e","g">>,
      <<".","t","i","f","f">>, <<".","t","i","f">>, <<".","b","m","p">> }

\* Path.with_suffix
with_suffix(path, suffix) ==
    SubSeq(path, 1, Len(path) - Len(PathSuffix(path))) \o suffix

\* one pass of the loop of batch_process, r being what process did
BatchPass(acc, input_path, output_path, r) ==
    [results |-> TryProcess(acc.results, input_path, output_path, r).results,
     disk |-> r.disk,
     processed |-> Append(acc.processed,
                          [input |-> input_path, raised |-> r.raised, value |-> r.value])]

\* the loop of batch_process from its i-th input on
RECURSIVE batch_process_from(_, _, _, _, _, _, _, _)
batch_process_from(i, files, out_dir, lab, include_raw, w, acc, today) ==
    IF i > Len(files) THEN acc
    ELSE batch_process_from(i + 1, files, out_dir, lab, include_raw, w,
            BatchPass(acc, files[i], OutputPath(out_dir, files[i]),
                      process(files[i], Some(OutputPath(out_dir, files[i])), lab, None,
                              include_raw, TRUE, w, acc.disk, today)),
            today)

\* batch_process as one call
batch_process(files, out_dir, lab, include_raw, w, d, today) ==
    batch_process_from(1, files, out_dir, lab, include_raw, w,
                       [results |-> <<>>, disk |-> mkdir(d, out_dir), processed |-> <<>>],
                       today)

\* success_count = sum(1 for r in results.values() if not r.startswith("ERROR"))
success_count(res) ==
    Cardinality({k \in DOMAIN res : ~StartsWith(res[k], <<"E","R","R","O","R">>)})

\* return 0 if success_count == len(input_files) else 1
DirectoryExit(batch, files) ==
    [code |-> IF success_count(batch.results) = Len(files) THEN 0 ELSE 1,
     disk |-> batch.disk, results |-> batch.results, processed |-> batch.processed]

\* the single-file branch after process: an exception of process or of
\* extract_only is caught at the end of main
SingleExit(r, args, w) ==
    [code |-> IF ~IsOk(r) THEN 1
              ELSE IF args.validate /\ ~IsOk(parse_certificate(args.input, args.lab_name, w))
              THEN 1
              ELSE 0,
     disk |-> r.disk, results |-> <<>>,
     processed |-> <<[input |-> args.input, raised |-> r.raised, value |-> r.value]>>]

\* input_files: the entries of the directory with a supported extension
InputFiles(listing) ==
    SelectSeq(listing, LAMBDA f : LowerStr(PathSuffix(f)) \in supported_extensions)

\* output_dir = Path(args.output) if args.output else input_path / "dcc_output"
OutputDir(args) ==
    IF ~Falsy(args.output) THEN Get(args.output)
    ELSE args.input \o <<"/","d","c","c","_","o","u","t","p","u","t">>

\* output_path = args.output or input_path.with_suffix('.xml')
SingleOutput(args) ==
    IF ~Falsy(args.output) THEN Get(args.output)
    ELSE with_suffix(args.input, <<".","x","m","l">>)

main(args, w, dirs, d, today) ==
    IF args.input \notin DOMAIN w.files /\ args.input \notin DOMAIN dirs
    THEN [code |-> 1, disk |-> d, results |-> <<>>, processed |-> <<>>]
    ELSE IF args.input \in DOMAIN dirs
    THEN IF InputFiles(dirs[args.input]) = <<>>
         THEN [code |-> 1, disk |-> d, results |-> <<>>, processed |-> <<>>]
         ELSE DirectoryExit(batch_process(InputFiles(dirs[args.input]), OutputDir(args),
                                          Some(Organization(args.lab_name)),
                                          args.include_raw, w, d, today),
                            InputFiles(dirs[args.input]))
    ELSE SingleExit(process(args.input, Some(SingleOutput(args)),
                            Some(Organization(args.lab_name)), None, args.include_raw,
                            TRUE, w, d, today),
                    args, w)

(***************************************************************************)
(* SpecCli: one run of main.                                               *)
(***************************************************************************)
MaxListing == 2

InDir == <<"i","n">>
ErrorsDir == <<"E","R","R","O","R","S">>
InNotes == <<"i","n","/","n","o","t","e","s",".","t","x","t">>
ErrorsPdf == <<"E","R","R","O","R","S","/","c","e","r","t",".","p","d","f">>

\* the files a directory can hold
CliFiles ==
    (ErrorsPdf :> BatchWorld.files[CertPdf]) @@ (InNotes :> BatchWorld.files[NotesTxt])
    @@ BatchWorld.files

InEntries == {CertPdf, CertPng, ScanTif, InNotes}

\* the entries of in/ in the order iterdir yields them
Listings ==
    { l \in UNION {[1..n -> InEntries] : n \in 0..MaxListing} :
         \A i, j \in DOMAIN l : i # j => l[i] # l[j] }

Range(f) == {f[x] : x \in DOMAIN f}

InitCli ==
    /\ pc = "main"
    /\ \E l \in Listings :
          /\ cli_dirs = (InDir :> l) @@ (ErrorsDir :> <<ErrorsPdf>>)
          /\ world = [files |-> [f \in Range(l) \cup {ErrorsPdf} |-> CliFiles[f]],
                      HAS_PYMUPDF |-> TRUE, HAS_OCR |-> TRUE]
    /\ cli_args \in [input : {InDir, ErrorsDir, CertPdf, ScanTif, InNotes},
                     output : {None, Some(<<"o","u","t">>)},
                     validate : BOOLEAN, include_raw : {FALSE},
                     lab_name : {DefaultLabName}]
    /\ exit_code = None
    /\ disk = EmptyDisk
    /\ batch_results = <<>>
    /\ processed = <<>>
    /\ clock = date(2026, 12, 31)
    /\ input_files = <<>> /\ output_dir = None /\ lab_info = None
    /\ include_raw_text = FALSE /\ batch_index = 0
    /\ input_file = None
    /\ raised = None
    /\ text = <<>>
    /\ MeasIdle /\ PatternIdle /\ DateIdle /\ CertIdle
    /\ UnitIdle /\ CallerIdle /\ ProcessIdle /\ AgentIdle /\ JobIdle /\ ValueIdle /\ GenIdle /\ ApiIdle

\* sys.exit(main())
Main ==
    /\ pc = "main"
    /\ \E today \in Today :
          \E r \in {main(cli_args, world, cli_dirs, disk, today)} :
             /\ exit_code' = Some(r.code)
             /\ disk' = r.disk
             /\ batch_results' = r.results
             /\ processed' = r.processed
             /\ clock' = today
    /\ pc' = "exited"
    /\ UNCHANGED <<raised, text, meas_vars, pattern_vars, date_vars, cert_vars, file_vars,
                   input_files, output_dir, lab_info, include_raw_text, batch_index,
                   unit_vars, caller_vars, process_vars, cli_args, cli_dirs, agent_vars,
                   job_vars, value_vars, gen_vars, api_vars>>

NextCli == Main

SpecCli == InitCli /\ [][NextCli]_vars

\* C16: main returns 0 if and only if the input exists, at least one file
\* was to be processed and each of them was processed without an error
C16_ExitCodeZeroIffEveryFileProcessed ==
    pc = "exited" =>
        /\ exit_code \in {Some(0), Some(1)}
        /\ exit_code = Some(0) <=>
              /\ processed # <<>>
              /\ \A i \in DOMAIN processed : processed[i].raised = None

(***************************************************************************)
(* SpecRevalidate: validate_certificate called again and again on one      *)
(* certificate by one agent.                                               *)
(***************************************************************************)
MaxCalls == 3

\* DCCAgent(): the agent after construction
DCCAgent(ocr_language, schema_version, default_lab_name) ==
    [ocr_language |-> ocr_language, schema_version |-> schema_version,
     default_lab_name |-> default_lab_name]

InitRevalidate ==
    /\ pc = "revalidate"
    /\ certificate \in Certificates
    /\ agent \in {DCCAgent(<<"e","n","g","+","d","e","u">>, <<"3",".","0",".","0">>, n) :
                    n \in LabNames}
    /\ validate_calls = 0
    /\ issues = <<>>
    /\ raised = None
    /\ text = <<>>
    /\ MeasIdle /\ PatternIdle /\ DateIdle /\ FileIdle /\ BatchIdle
    /\ UnitIdle /\ CallerIdle /\ ProcessIdle /\ CliIdle /\ JobIdle /\ ValueIdle /\ GenIdle /\ ApiIdle

\* issues = agent.validate_certificate(certificate)
Revalidate ==
    /\ pc = "revalidate"
    /\ validate_calls < MaxCalls
    /\ \E r \in {validate_certificate_call(agent, certificate)} :
          /\ issues' = r.issues
          /\ agent' = r.self
          /\ certificate' = r.certificate
    /\ validate_calls' = validate_calls + 1
    /\ UNCHANGED <<pc, raised, text, meas_vars, pattern_vars, date_vars, file_vars,
                   batch_vars, unit_vars, caller_vars, process_vars, cli_vars, job_vars,
                   value_vars, gen_vars, api_vars>>

NextRevalidate == Revalidate

SpecRevalidate == InitRevalidate /\ [][NextRevalidate]_vars

MaxJobs == 2

\* a scan that carries its calibration date, next to the files of the batch
DatedTif == <<"i","n","/","d","a","t","e","d",".","t","i","f">>

JobsWorld ==
    [BatchWorld EXCEPT !.files =
        (DatedTif :> [fitz |-> FitzError,
                      ocr |-> Ok(<<"C","a","l","i","b","r","a","t","i","o","n"," ","d","a",
                                   "t","e",":"," ","1","5",".","0","1",".","2","0","2","4",
                                   "\n">>)]) @@ @]

JobFiles == {CertPdf, CertPng, ScanTif, DatedTif}

Job(file) ==
    [file |-> file, stage |-> "new", raw_text |-> None, parsed |-> None,
     xml |-> None, raised |-> None, today |-> None]

\* the text of an extractor that keeps the text acquired last in a field
\* of its own: the parsing works on whatever was acquired last
RawTextAcquiredLast(js, j) ==
    IF \E k \in DOMAIN js : k > j /\ js[k].stage # "new"
    THEN js[CHOOSE k \in DOMAIN js : k > j /\ js[k].stage # "new"].raw_text
    ELSE js[j].raw_text

\* raw_text = self.extract_from_file(file_path): the text the parsing of
\* job j works on is the local of its own call
RawTextOf(js, j) == js[j].raw_text

\* the unit symbols a parsed certificate was built with
SymbolsOf(parsed) ==
    IF ~IsOk(parsed) THEN <<>>
    ELSE [i \in DOMAIN parsed.value.measurement_results |->
              parsed.value.measurement_results[i].measured_value.unit.symbol]

\* COMMON_UNITS after get_unit was called for each of the symbols
RECURSIVE TableAfter(_, _)
TableAfter(table, symbols) ==
    IF symbols = <<>> THEN table
    ELSE TableAfter(get_unit_call(table, Head(symbols)).table, Tail(symbols))

InitJobs ==
    /\ pc = "jobs"
    /\ jobs \in {[i \in 1..MaxJobs |-> Job(f[i])] : f \in [1..MaxJobs -> JobFiles]}
    /\ world = JobsWorld
    /\ agent = DCCAgent(<<"e","n","g","+","d","e","u">>, <<"3",".","0",".","0">>,
                        DefaultLabName)
    /\ common_units = COMMON_UNITS
    /\ clock = date(2026, 12, 31)
    /\ validate_calls = 0
    /\ lookup_symbol = None /\ lookup_unit = None /\ lookup_si = None
    /\ input_file = None
    /\ input_files = <<>> /\ output_dir = <<>> /\ lab_info = None
    /\ include_raw_text = FALSE /\ batch_index = 0 /\ batch_results = <<>>
    /\ disk = EmptyDisk /\ processed = <<>>
    /\ raised = None
    /\ text = <<>>
    /\ MeasIdle /\ PatternIdle /\ DateIdle /\ CertIdle
    /\ CallerIdle /\ ProcessIdle /\ CliIdle /\ ValueIdle /\ GenIdle /\ ApiIdle

JobsFrame ==
    UNCHANGED <<pc, raised, text, meas_vars, pattern_vars, date_vars, cert_vars, file_vars,
                input_files, output_dir, lab_info, include_raw_text, batch_index,
                batch_results, disk, processed, lookup_symbol, lookup_unit, lookup_si,
                caller_vars, process_vars, cli_vars, agent_vars, value_vars, gen_vars, api_vars>>

\* raw_text = self.extract_from_file(file_path)
AcquireText(j) ==
    /\ jobs[j].stage = "new"
    /\ \E r \in {extract_from_file(jobs[j].file, world)} :
          jobs' = [jobs EXCEPT ![j].raw_text = r,
                               ![j].raised = r.raised,
                               ![j].stage = IF IsOk(r) THEN "text" ELSE "raised"]
    /\ UNCHANGED <<common_units, clock>>
    /\ JobsFrame

\* the rest of parse_certificate: the fields are extracted from raw_text
ParseJob(j) ==
    /\ jobs[j].stage = "text"
    /\ \E r \in {ParseText(RawTextOf(jobs, j), jobs[j].file, agent.default_lab_name)} :
          /\ jobs' = [jobs EXCEPT ![j].parsed = r, ![j].stage = "parsed"]
          /\ common_units' = TableAfter(common_units, SymbolsOf(r))
    /\ UNCHANGED clock
    /\ JobsFrame

\* xml_content = self.xml_generator.to_string(certificate, ...)
GenerateJob(j) ==
    /\ jobs[j].stage = "parsed"
    /\ \E today \in {d \in Today : NotBefore(d, clock)} :
          \E r \in {Generated(jobs[j].parsed, None, None, None, FALSE, TRUE, EmptyDisk,
                              today)} :
             /\ jobs' = [jobs EXCEPT ![j].xml = r.value,
                                     ![j].raised = r.raised,
                                     ![j].today = Some(today),
                                     ![j].stage = IF r.raised = None THEN "xml"
                                                  ELSE "raised"]
             /\ clock' = today
    /\ UNCHANGED common_units
    /\ JobsFrame

NextJobs ==
    \E j \in 1..MaxJobs : AcquireText(j) \/ ParseJob(j) \/ GenerateJob(j)

SpecJobs == InitJobs /\ [][NextJobs]_vars

\* what process returns for the file of job j when it is called alone on a
\* new agent, the clock showing the day d
Alone(j, d) ==
    process(jobs[j].file, None, None, None, FALSE, TRUE, JobsWorld, EmptyDisk, d)

\* the shared tables and the agent are as they were at the start
SharedStateKept ==
    /\ common_units = COMMON_UNITS
    /\ agent = DCCAgent(<<"e","n","g","+","d","e","u">>, <<"3",".","0",".","0">>,
                        DefaultLabName)

\* the certificate of every job parsed is what parsing its file alone gives
ParsedAsAlone ==
    \A j \in DOMAIN jobs :
        jobs[j].stage = "parsed" =>
            jobs[j].parsed = parse_certificate(jobs[j].file, DefaultLabName, JobsWorld)

MeasuredValueFrom(kwargs) == Ok(kwargs)

Numbers == { [int |-> <<"1">>, frac |-> <<>>], [int |-> <<>>, frac |-> <<"5">>],
             [int |-> <<"2">>, frac |-> <<"5">>] }

ValueUnits == {<<"N">>, <<"k","N">>, <<"l","b","f">>}

KeywordArguments ==
    [value : Numbers, unit : {get_unit(u) : u \in ValueUnits},
     expanded_uncertainty : {None, Some([int |-> <<>>, frac |-> <<"5">>])},
     coverage_factor : {None, Some([int |-> <<"2">>, frac |-> <<>>])},
     coverage_probability : {None, Some([int |-> <<>>, frac |-> <<"9","5">>])}]

InitValue ==
    /\ pc = "value"
    /\ mv_kwargs \in KeywordArguments
    /\ mv_built = None
    /\ mv_element = None
    /\ raised = None
    /\ text = <<>>
    /\ MeasIdle /\ PatternIdle /\ DateIdle /\ CertIdle /\ FileIdle /\ BatchIdle
    /\ UnitIdle /\ CallerIdle /\ ProcessIdle /\ CliIdle /\ AgentIdle /\ JobIdle
    /\ GenIdle /\ ApiIdle

ValueFrame ==
    UNCHANGED <<text, meas_vars, pattern_vars, date_vars, cert_vars, file_vars,
                batch_vars, unit_vars, caller_vars, process_vars, cli_vars, agent_vars,
                job_vars, gen_vars, api_vars, mv_kwargs>>

\* measured_value = MeasuredValue(value=value, unit=unit), as the extractor
\* builds a value from the number and the unit it found
BuildByExtractor ==
    /\ pc = "value"
    /\ mv_built' = Some(MeasuredValue(mv_kwargs.value, mv_kwargs.unit))
    /\ pc' = "built_by_extractor"
    /\ UNCHANGED <<raised, mv_element>>
    /\ ValueFrame

\* MeasuredValue(value=..., unit=..., expanded_uncertainty=..., ...), as a
\* caller of the library builds a value
BuildByCaller ==
    /\ pc = "value"
    /\ \E r \in {MeasuredValueFrom(mv_kwargs)} :
          /\ mv_built' = IF IsOk(r) THEN Some(r.value) ELSE None
          /\ raised' = r.raised
          /\ pc' = IF IsOk(r) THEN "built_by_caller" ELSE "refused"
    /\ UNCHANGED mv_element
    /\ ValueFrame

\* self._create_value_element(parent, value)
CreateValueElement ==
    /\ pc \in {"built_by_extractor", "built_by_caller"}
    /\ mv_element' = Some(_create_value_element(Get(mv_built), "si:real"))
    /\ pc' = "serialized_" \o pc
    /\ UNCHANGED <<raised, mv_built>>
    /\ ValueFrame

NextValue == BuildByExtractor \/ BuildByCaller \/ CreateValueElement

SpecValue == InitValue /\ [][NextValue]_vars

\* C19: a MeasuredValue, built by the extractor or accepted from a caller,
\* that has a coverage factor or a coverage probability has the expanded
\* uncertainty
C19_FactorOrProbabilityOnlyWithUncertainty ==
    mv_built # None =>
        ((Get(mv_built).coverage_factor # None \/ Get(mv_built).coverage_probability # None)
            => Get(mv_built).expanded_uncertainty # None)

(***************************************************************************)
(* SpecGenerate: generate applied to a certificate.  lxml refuses a text   *)
(* with a control character when the text is set, inside generate.         *)
(***************************************************************************)
GenRemarks == {None, Some(<<>>), Some(<<"o","k">>), Some(<<"\f">>)}
GenRawTexts == {None, Some(<<>>), Some(<<"S","/","N"," ","7","\n">>)}

GenCertificates ==
    { [c EXCEPT !.remarks = r, !.raw_text = t] :
        c \in {x \in Certificates :
                  /\ x.certificate_number = <<"C","A","L","-","1">>
                  /\ x.equipment.serial_number # Some(<<>>)},
        r \in GenRemarks, t \in GenRawTexts }

InitGenerate ==
    /\ pc = "generate"
    /\ certificate \in GenCertificates
    /\ include_raw_text \in BOOLEAN
    /\ clock = date(2026, 12, 31)
    /\ xml_root = None
    /\ issues = <<>>
    /\ input_files = <<>> /\ output_dir = <<>> /\ lab_info = None
    /\ batch_index = 0 /\ batch_results = <<>>
    /\ disk = EmptyDisk /\ processed = <<>>
    /\ raised = None
    /\ text = <<>>
    /\ MeasIdle /\ PatternIdle /\ DateIdle /\ FileIdle
    /\ UnitIdle /\ CallerIdle /\ ProcessIdle /\ CliIdle /\ AgentIdle /\ JobIdle
    /\ ValueIdle /\ ApiIdle

\* root = self.generate(certificate, include_raw_text)
Generate ==
    /\ pc = "generate"
    /\ \E r \in {generate(certificate, include_raw_text, clock)} :
          IF AllCompatible(r)
          THEN xml_root' = Some(r) /\ raised' = None /\ pc' = "generated"
          ELSE /\ xml_root' = None
               /\ raised' = Some([type |-> "ValueError", msg |-> <<>>])
               /\ pc' = "generate_raised"
    /\ UNCHANGED <<text, meas_vars, pattern_vars, date_vars, cert_vars, file_vars,
                   batch_vars, unit_vars, caller_vars, process_vars, cli_vars, agent_vars,
                   job_vars, value_vars, api_vars>>

NextGenerate == Generate

SpecGenerate == InitGenerate /\ [][NextGenerate]_vars

\* the condition of the comment section, from the fields of the certificate
CommentExpected ==
    \/ certificate.remarks \notin {None, Some(<<>>)}
    \/ include_raw_text /\ certificate.raw_text \notin {None, Some(<<>>)}

\* C20: the root element generate returns has administrativeData, then
\* measurementResults, as its first two children whatever the certificate
\* holds, and a third and last child comment exactly when the remarks are
\* non-empty or the raw text is asked for and non-empty
C20_RootHasTwoSectionsAndOptionalComment ==
    pc = "generated" =>
        /\ Len(Get(xml_root).children) = IF CommentExpected THEN 3 ELSE 2
        /\ Get(xml_root).children[1].tag = "dcc:administrativeData"
        /\ Get(xml_root).children[2].tag = "dcc:measurementResults"
        /\ CommentExpected => Get(xml_root).children[3].tag = "dcc:comment"

\* no measurement result, no optional field, no remarks; the raw text is
\* asked for and there is some: the comment section is the third child
C20_Witness ==
    /\ pc = "generated"
    /\ certificate.measurement_results = <<>>
    /\ certificate.calibration_date = None
    /\ certificate.environmental_conditions = None
    /\ certificate.equipment.serial_number = None
    /\ certificate.remarks = None
    /\ include_raw_text /\ certificate.raw_text = Some(<<"S","/","N"," ","7","\n">>)
    /\ Len(Get(xml_root).children) = 3

(***************************************************************************)
(* SpecData: _create_measurement_results applied to a certificate whose    *)
(* results have, or have not, a reference value and a deviation            *)
(***************************************************************************)
MaxQuantities == 3

OneNewton == MeasuredValue([int |-> <<"1">>, frac |-> <<>>], get_unit(<<"N">>))

\* a result as a caller can build it: reference value and deviation are optional
DataResults ==
    { [SomeResult EXCEPT !.reference_value = ref, !.deviation = dev] :
        ref \in {None, Some(OneNewton)}, dev \in {None, Some(OneNewton)} }

DataCertificates ==
    { CalibrationCertificate(<<"C","A","L","-","1">>, None, None, Organization(<<"L">>),
          EquipmentInfo(<<"E">>, None, None, None), None, rs, None, None) :
        rs \in UNION {[1..k -> DataResults] : k \in 0..MaxQuantities} }

InitData ==
    /\ pc = "data"
    /\ certificate \in DataCertificates
    /\ include_raw_text = FALSE
    /\ clock = date(2026, 12, 31)
    /\ xml_root = None
    /\ issues = <<>>
    /\ input_files = <<>> /\ output_dir = <<>> /\ lab_info = None
    /\ batch_index = 0 /\ batch_results = <<>>
    /\ disk = EmptyDisk /\ processed = <<>>
    /\ raised = None
    /\ text = <<>>
    /\ MeasIdle /\ PatternIdle /\ DateIdle /\ FileIdle
    /\ UnitIdle /\ CallerIdle /\ ProcessIdle /\ CliIdle /\ AgentIdle /\ JobIdle
    /\ ValueIdle /\ ApiIdle

\* results_section = self._create_measurement_results(root, certificate)
CreateMeasurementResults ==
    /\ pc = "data"
    /\ xml_root' = Some(_create_measurement_results(certificate))
    /\ pc' = "data_created"
    /\ UNCHANGED <<raised, text, meas_vars, pattern_vars, date_vars, cert_vars, file_vars,
                   batch_vars, unit_vars, caller_vars, process_vars, cli_vars, agent_vars,
                   job_vars, value_vars, api_vars>>

NextData == CreateMeasurementResults

SpecData == InitData /\ [][NextData]_vars

\* the children of the list element of the section's data element
DataList(section) ==
    section.children[1].children[Len(section.children[1].children)].children[1].children

RefIdOf(quantity) == quantity.attrib[1][2]

\* the position in the list q of the quantity with reference id ref_id, 0 when
\* there is none
PlaceOf(q, ref_id) ==
    IF \E i \in DOMAIN q : RefIdOf(q[i]) = ref_id
    THEN CHOOSE i \in DOMAIN q : RefIdOf(q[i]) = ref_id
    ELSE 0

MeasurementId(n) == <<"m","e","a","s","u","r","e","m","e","n","t","_">> \o Digits(n, 1)
ReferenceId(n) == <<"r","e","f","e","r","e","n","c","e","_">> \o Digits(n, 1)
DeviationId(n) == <<"d","e","v","i","a","t","i","o","n","_">> \o Digits(n, 1)

\* the number of quantities the result r stands for
QuantitiesOf(r) ==
    1 + (IF r.reference_value # None THEN 1 ELSE 0) + (IF r.deviation # None THEN 1 ELSE 0)

RECURSIVE QuantitiesUpTo(_, _)
QuantitiesUpTo(rs, n) == IF n = 0 THEN 0 ELSE QuantitiesUpTo(rs, n - 1) + QuantitiesOf(rs[n])

\* the list q is the one the results rs stand for
ListsResults(q, rs) ==
    /\ Len(q) = QuantitiesUpTo(rs, Len(rs))
    /\ \A i \in DOMAIN q : q[i].tag = "dcc:quantity" /\ Len(q[i].attrib) = 1
                           /\ q[i].attrib[1][1] = "refId"
    /\ \A i, j \in DOMAIN q : RefIdOf(q[i]) = RefIdOf(q[j]) => i = j
    /\ \A n \in DOMAIN rs :
          /\ PlaceOf(q, MeasurementId(n)) = QuantitiesUpTo(rs, n - 1) + 1
          /\ IF rs[n].reference_value # None
             THEN PlaceOf(q, ReferenceId(n)) = PlaceOf(q, MeasurementId(n)) + 1
             ELSE PlaceOf(q, ReferenceId(n)) = 0
          /\ IF rs[n].deviation # None
             THEN PlaceOf(q, DeviationId(n)) = QuantitiesUpTo(rs, n)
             ELSE PlaceOf(q, DeviationId(n)) = 0

\* C21: the data list holds, for each result in order, the quantity
\* measurement_n, then reference_n exactly when the result has a reference
\* value, then deviation_n exactly when it has a deviation, n being the
\* position of the result counted from 1; the reference ids are pairwise
\* distinct and there are as many quantities as results, reference values
\* and deviations together
C21_DataListFollowsTheResults ==
    pc = "data_created" =>
        ListsResults(DataList(Get(xml_root)), certificate.measurement_results)

\* two results, the first with reference value and deviation, the second
\* with a deviation only: five quantities, deviation_2 the last
C21_Witness ==
    /\ pc = "data_created"
    /\ Len(certificate.measurement_results) = 2
    /\ certificate.measurement_results[1].reference_value # None
    /\ certificate.measurement_results[1].deviation # None
    /\ certificate.measurement_results[2].reference_value = None
    /\ certificate.measurement_results[2].deviation # None
    /\ Len(DataList(Get(xml_root))) = 5
    /\ RefIdOf(DataList(Get(xml_root))[5]) = DeviationId(2)

(***************************************************************************)
(* SpecAmend: DCCAgent.process with and without lab_info and               *)
(* customer_info; certificate is the local of process as it is serialized  *)
(***************************************************************************)
\* an accredited laboratory and a customer as create_lab_info builds them
AccreditedLab ==
    [Organization(<<"P","T","B">>) EXCEPT !.accreditation_number = Some(<<"D","-","K","-","1">>)]
SomeCustomer == Organization(<<"A","c","m","e">>)

\* both libraries are installed
AmendWorlds(path) == {w \in AcquisitionWorlds(path) : w.HAS_PYMUPDF /\ w.HAS_OCR}

InitAmend ==
    /\ pc = "process"
    /\ input_file \in CertPaths
    /\ world \in AmendWorlds(input_file)
    /\ lab_info \in {None, Some(AccreditedLab), Some(Organization(DefaultLabName))}
    /\ customer_info \in {None, Some(SomeCustomer)}
    /\ certificate = None
    /\ returned_xml = None
    /\ library_calls = <<>>
    /\ raised = None
    /\ text = <<>>
    /\ issues = <<>>
    /\ input_files = <<>> /\ output_dir = <<>> /\ include_raw_text = FALSE
    /\ batch_index = 0 /\ batch_results = <<>>
    /\ disk = EmptyDisk /\ processed = <<>> /\ clock = None
    /\ lab_kwargs = None /\ lab_created = None /\ env_conditions = None
    /\ MeasIdle /\ PatternIdle /\ DateIdle /\ UnitIdle /\ CallerIdle
    /\ CliIdle /\ AgentIdle /\ JobIdle /\ ValueIdle /\ GenIdle

\* lab_name = lab_info.name if lab_info else self.default_lab_name
LabNameFor(lab) == IF lab # None THEN Get(lab).name ELSE DefaultLabName

\* the local certificate of process after the two overrides, when
\* parse_certificate returned one
AmendedCertificate(parsed, lab, customer) ==
    IF IsOk(parsed) THEN Some(WithCustomer(WithLab(parsed.value, lab), customer)) ELSE None

\* agent.process(input_file, lab_info=lab_info, customer_info=customer_info)
ProcessWithOrganizations ==
    /\ pc = "process"
    /\ \E parsed \in {parse_certificate(input_file, LabNameFor(lab_info), world)} :
          /\ certificate' = AmendedCertificate(parsed, lab_info, customer_info)
          /\ \E today \in Today :
                \E r \in {Generated(parsed, None, lab_info, customer_info, FALSE, TRUE,
                                    EmptyDisk, today)} :
                   /\ returned_xml' = r.value
                   /\ raised' = r.raised
                   /\ pc' = IF r.raised = None THEN "processed" ELSE "process_raised"
                   /\ clock' = Some(today)
    /\ library_calls' = extract_from_file_calls(input_file, world)
    /\ UNCHANGED <<text, issues, meas_vars, pattern_vars, date_vars, file_vars,
                   input_files, output_dir, lab_info, include_raw_text, batch_index,
                   batch_results, disk, processed, unit_vars, caller_vars, cli_vars,
                   agent_vars, job_vars, value_vars, gen_vars, customer_info, lab_kwargs,
                   lab_created, env_conditions>>

NextAmend == ProcessWithOrganizations

SpecAmend == InitAmend /\ [][NextAmend]_vars

\* the certificate parse_certificate extracts from the file when no
\* organization is passed
AsExtracted == parse_certificate(input_file, DefaultLabName, world).value

OtherFields ==
    {"certificate_number", "certificate_date", "calibration_date", "valid_until",
     "language", "equipment", "environmental_conditions", "measurement_results",
     "measurement_procedure", "traceability", "remarks", "raw_text", "source_file"}

\* C22: process amends the organizations only: the laboratory of the
\* certificate serialized is lab_info itself when one is supplied and
\* otherwise the organization named with the default laboratory name, the
\* customer is customer_info when one is supplied and otherwise as
\* extracted, and every other field is as extracted
C22_ProcessAmendsOrganizationsOnly ==
    certificate # None =>
        LET extracted == AsExtracted
        IN  /\ Get(certificate).calibration_laboratory =
                  (IF lab_info # None THEN Get(lab_info) ELSE Organization(DefaultLabName))
            /\ Get(certificate).customer =
                  (IF customer_info # None THEN customer_info ELSE extracted.customer)
            /\ \A f \in OtherFields : Get(certificate)[f] = extracted[f]
            /\ DOMAIN Get(certificate) = OtherFields \cup {"calibration_laboratory", "customer"}

\* an accredited laboratory and a customer are supplied and the XML is
\* returned: the certificate serialized carries the accreditation number
C22_Witness ==
    /\ pc = "processed"
    /\ lab_info = Some(AccreditedLab)
    /\ customer_info = Some(SomeCustomer)
    /\ returned_xml # None
    /\ Get(certificate).calibration_laboratory.accreditation_number = Some(<<"D","-","K","-","1">>)
    /\ Get(certificate).measurement_results # <<>>

\* no organization is supplied: the laboratory has the default name and
\* there is no customer
C22_WitnessDefault ==
    /\ pc = "processed"
    /\ lab_info = None /\ customer_info = None
    /\ Get(certificate).calibration_laboratory = Organization(DefaultLabName)
    /\ Get(certificate).customer = None

(***************************************************************************)
(* SpecConditions: extract_environmental_conditions applied to a text      *)
(***************************************************************************)
MaxConditionLines == 2

ConditionLines == {
    <<"P","r","e","s","s","u","r","e",":"," ","1","0","1","3"," ","h","P","a","\n">>,
    <<"p","r","e","s","s","u","r","e"," ","9","9","0","m","b","a","r","\n">>,
    <<"L","u","f","t","d","r","u","c","k",":"," ","1","0","1",",","3"," ","k","P","a","\n">>,
    <<"A","t","m","o","s","p","h","e","r","i","c"," ","P","r","e","s","s","u","r","e",".",
      " ","5"," ","P","a","\n">>,
    <<"P","r","e","s","s","u","r","e",":"," ","1","0","1","3","\n">>,
    <<"P","R","E","S","S","U","R","E",":"," ","1","0","1","3"," ","H","P","A","\n">>,
    <<"P","r","e","s","s","u","r","e",":"," ","1",".","0",".","1"," ","h","P","a","\n">>,
    <<"T","e","m","p",":"," ","2","0"," ","°","C","\n">> }

InitConditions ==
    /\ pc = "conditions"
    /\ text \in TextsOf(ConditionLines, MaxConditionLines)
    /\ env_conditions = None
    /\ customer_info = None /\ lab_kwargs = None /\ lab_created = None
    /\ raised = None
    /\ MeasIdle /\ PatternIdle /\ DateIdle /\ CertIdle /\ FileIdle /\ BatchIdle
    /\ UnitIdle /\ CallerIdle /\ ProcessIdle /\ CliIdle /\ AgentIdle /\ JobIdle
    /\ ValueIdle /\ GenIdle

\* conditions = self.extract_environmental_conditions(text)
ExtractEnvironmentalConditions ==
    /\ pc = "conditions"
    /\ env_conditions' = extract_environmental_conditions(text)
    /\ pc' = "conditions_done"
    /\ UNCHANGED <<raised, text, meas_vars, pattern_vars, date_vars, cert_vars, file_vars,
                   batch_vars, unit_vars, caller_vars, process_vars, cli_vars, agent_vars,
                   job_vars, value_vars, gen_vars, customer_info, lab_kwargs, lab_created>>

NextConditions == ExtractEnvironmentalConditions

SpecConditions == InitConditions /\ [][NextConditions]_vars

\* a pressure pattern without its last group, the unit token
LabelAndNumber(re) == SubSeq(re, 1, Len(re) - 3)

\* the matches of "label, number" of the pressure patterns in s
LabeledPressures(s) ==
    UNION { {m \in {FindIter(LabelAndNumber(PATTERNS["pressure"][i]), s, IgnoreCase)[k] :
                     k \in DOMAIN FindIter(LabelAndNumber(PATTERNS["pressure"][i]), s,
                                           IgnoreCase)} :
               IsOk(float(ReplaceComma(Get(GroupOf(m, s, 1)))))} :
            i \in DOMAIN PATTERNS["pressure"] }

PressureTokens == { <<"h","P","a">>, <<"m","b","a","r">>, <<"P","a">>, <<"k","P","a">> }

\* the pressure returned, if any
PressureOf(c) == IF c = None THEN None ELSE Get(c).pressure

\* C25: when the text holds a labeled pressure value followed by a unit
\* token, the unit symbol of the pressure returned is the token captured;
\* when it holds a labeled pressure value without a
\* unit token, the pressure is returned all the same, with the unit "hPa"
C25_PressureUnitCapturedOrDefault ==
    pc = "conditions_done" =>
        /\ PressureFound(text).idx # 0 =>
              (PressureOf(env_conditions) # None =>
                  Get(PressureOf(env_conditions)).unit.symbol
                      = Get(GroupOf(PressureFound(text).match, text, 2)))
        /\ (PressureFound(text).idx = 0 /\ LabeledPressures(text) # {}) =>
              /\ PressureOf(env_conditions) # None
              /\ Get(PressureOf(env_conditions)).unit.symbol = <<"h","P","a">>

\* what the code does: the pressure returned is the one of the first pattern
\* that matches with its unit token, the symbol being the token as the text
\* spells it; a labeled pressure value without a unit token gives no pressure
C25_PressureOnlyWithUnitToken ==
    pc = "conditions_done" =>
        /\ (PressureFound(text).idx # 0 /\ PressureOf(env_conditions) # None) =>
              LET token == Get(GroupOf(PressureFound(text).match, text, 2))
              IN  /\ Get(PressureOf(env_conditions)).unit.symbol = token
                  /\ [i \in DOMAIN token |-> ToLower(token[i])]
                        \in {[i \in DOMAIN tk |-> ToLower(tk[i])] : tk \in PressureTokens}
        /\ PressureFound(text).idx = 0 => PressureOf(env_conditions) = None

\* "Pressure: 1013" alone: a labeled pressure value, and no pressure returned
C25_LabeledPressureLost ==
    /\ pc = "conditions_done"
    /\ text = <<"P","r","e","s","s","u","r","e",":"," ","1","0","1","3","\n">>
    /\ LabeledPressures(text) # {}
    /\ env_conditions = None

(***************************************************************************)
(* SpecPdf: _extract_from_pdf called on a PDF that exists                  *)
(***************************************************************************)
\* what PyMuPDF can read from the file: nothing, a few characters, exactly
\* MinPdfTextLen characters, as many between blank lines, one more, a text
\* that is long only by its blanks, a page of text; or it fails
TextLayers ==
    { FitzError, Ok(<<>>), Ok(ShortText),
      Ok([i \in 1..MinPdfTextLen |-> "a"]),
      Ok(<<"\n", "\n">> \o [i \in 1..MinPdfTextLen |-> "a"] \o <<"\n", "\f">>),
      Ok([i \in 1..(MinPdfTextLen + 1) |-> "a"]),
      Ok(ShortText \o [i \in 1..MinPdfTextLen |-> " "]),
      Ok(LongText) }

PdfWorlds(path) ==
    { [files |-> [p \in {path} |-> [fitz |-> f, ocr |-> o]],
       HAS_PYMUPDF |-> mu, HAS_OCR |-> ocr] :
        f \in TextLayers, o \in {OcrError, Ok(OcrText)}, mu \in BOOLEAN, ocr \in BOOLEAN }

InitPdf ==
    /\ pc = "pdf"
    /\ input_file = <<"u","n","i","t","7",".","p","d","f">>
    /\ world \in PdfWorlds(input_file)
    /\ text = <<>>
    /\ raised = None
    /\ returned_xml = None
    /\ library_calls = <<>>
    /\ MeasIdle /\ PatternIdle /\ DateIdle /\ CertIdle /\ BatchIdle /\ UnitIdle
    /\ CallerIdle /\ MoreIdle

\* text = self._extract_from_pdf(file_path); an exception leaves the call
ExtractFromPdf ==
    /\ pc = "pdf"
    /\ \E r \in {_extract_from_pdf(input_file, world)} :
          /\ text' = IF IsOk(r) THEN r.value ELSE text
          /\ raised' = r.raised
          /\ pc' = IF IsOk(r) THEN "pdf_done" ELSE "pdf_raised"
    /\ library_calls' = _extract_from_pdf_calls(input_file, world)
    /\ UNCHANGED <<returned_xml, meas_vars, pattern_vars, date_vars, cert_vars, file_vars,
                   batch_vars, unit_vars, caller_vars, more_vars>>

NextPdf == ExtractFromPdf

SpecPdf == InitPdf /\ [][NextPdf]_vars

\* PyMuPDF is installed, reads the file and gives more than 100 characters
\* between the whitespace at the two ends
TextLayerKept ==
    /\ world.HAS_PYMUPDF
    /\ IsOk(world.files[input_file].fitz)
    /\ \E a, b \in DOMAIN world.files[input_file].fitz.value :
          /\ b - a + 1 > 100
          /\ world.files[input_file].fitz.value[a] \notin Space
          /\ world.files[input_file].fitz.value[b] \notin Space

OcrAttempted == \E i \in DOMAIN library_calls : library_calls[i] = "convert_from_path"

\* C28: the text of the text layer is returned, without OCR, exactly when
\* PyMuPDF is installed, reads the file without error and gives more than 100
\* characters after trimming; in every other case, when the OCR chain is
\* installed, OCR is attempted and its text returned or its failure raised,
\* and when it is not installed the missing-capability error is raised; a
\* failure of PyMuPDF is never what the caller gets
C28_TextLayerThenOcr ==
    pc \in {"pdf_done", "pdf_raised"} =>
        LET file == world.files[input_file]
        IN  /\ (pc = "pdf_done" /\ ~OcrAttempted) <=> TextLayerKept
            /\ TextLayerKept => text = file.fitz.value /\ raised = None
            /\ (~TextLayerKept /\ world.HAS_OCR) =>
                  /\ OcrAttempted
                  /\ IsOk(file.ocr) => (pc = "pdf_done" /\ text = file.ocr.value)
                  /\ ~IsOk(file.ocr) => (pc = "pdf_raised" /\ raised = file.ocr.raised)
            /\ (raised # None /\ Get(raised).type = "ImportError")
                  <=> (~TextLayerKept /\ ~world.HAS_OCR)
            /\ ~world.HAS_OCR => ~OcrAttempted
            /\ raised # FitzError.raised

\* PyMuPDF reads exactly 100 characters between blank lines: OCR is attempted
\* and its text returned
C28_Witness ==
    /\ pc = "pdf_done"
    /\ world.HAS_PYMUPDF /\ world.HAS_OCR
    /\ IsOk(world.files[input_file].fitz)
    /\ Len(world.files[input_file].fitz.value) = 104
    /\ library_calls = <<"fitz.open", "convert_from_path">>
    /\ text = OcrText

\* PyMuPDF fails and the OCR chain is not installed: the caller gets the
\* missing-capability error
C28_WitnessNoOcr ==
    /\ pc = "pdf_raised"
    /\ world.HAS_PYMUPDF /\ ~world.HAS_OCR
    /\ ~IsOk(world.files[input_file].fitz)
    /\ Get(raised).type = "ImportError"

(***************************************************************************)
(* agent.py: create_lab_info, and SpecLab: the helper called with keyword  *)
(* arguments                                                               *)
(***************************************************************************)
Contact(email, phone) == [name |-> None, email |-> email, phone |-> phone, fax |-> None]

\* any([...]), email or phone: None and the empty string are false
create_lab_info(kw) ==
    [name |-> kw.name,
     address |-> IF \E f \in {"street", "city", "postal_code", "country"} : ~Falsy(kw[f])
                 THEN Some(Address(kw.street, kw.city, kw.postal_code, kw.country,
                                   kw.country_code))
                 ELSE None,
     contact |-> IF ~Falsy(kw.email) \/ ~Falsy(kw.phone)
                 THEN Some(Contact(kw.email, kw.phone)) ELSE None,
     accreditation_number |-> kw.accreditation_number]

\* the keyword arguments of a caller: each optional one is given or left out
LabKeywords ==
    { [name |-> <<"P","T","B">>, street |-> st, city |-> ci, postal_code |-> po,
       country |-> co, country_code |-> cc, accreditation_number |-> ac,
       email |-> em, phone |-> ph] :
        st \in {None, Some(<<"B","u","n","d","e","s","a","l","l","e","e">>)},
        ci \in {None, Some(<<"B","r","a","u","n","s","c","h","w","e","i","g">>)},
        po \in {None, Some(<<"3","8","1","1","6">>)},
        co \in {None, Some(<<"G","e","r","m","a","n","y">>)},
        cc \in {None, Some(<<"D","E">>)},
        ac \in {None, Some(<<"D","-","K","-","1">>)},
        em \in {None, Some(<<"a","@","b">>)},
        ph \in {None, Some(<<"1","2","3">>)} }

InitLab ==
    /\ pc = "lab"
    /\ lab_kwargs \in LabKeywords
    /\ lab_created = None
    /\ customer_info = None /\ env_conditions = None
    /\ raised = None
    /\ text = <<>>
    /\ MeasIdle /\ PatternIdle /\ DateIdle /\ CertIdle /\ FileIdle /\ BatchIdle
    /\ UnitIdle /\ CallerIdle /\ ProcessIdle /\ CliIdle /\ AgentIdle /\ JobIdle
    /\ ValueIdle /\ GenIdle

\* lab_info = create_lab_info(name=..., street=..., ...)
CreateLabInfo ==
    /\ pc = "lab"
    /\ lab_created' = Some(create_lab_info(lab_kwargs))
    /\ pc' = "lab_created"
    /\ UNCHANGED <<raised, text, meas_vars, pattern_vars, date_vars, cert_vars, file_vars,
                   batch_vars, unit_vars, caller_vars, process_vars, cli_vars, agent_vars,
                   job_vars, value_vars, gen_vars, customer_info, lab_kwargs,
                   env_conditions>>

NextLab == CreateLabInfo

SpecLab == InitLab /\ [][NextLab]_vars

AddressFields == {"street", "city", "postal_code", "country", "country_code"}

\* C30: the organization returned has an address exactly when at least one
\* of street, city, postal_code, country and country_code was supplied, and a
\* contact exactly when email or phone was supplied, each with exactly the
\* values supplied; name and accreditation number are the ones supplied
C30_NoSuppliedFieldDropped ==
    pc = "lab_created" =>
        LET org == Get(lab_created)
        IN  /\ org.name = lab_kwargs.name
            /\ org.accreditation_number = lab_kwargs.accreditation_number
            /\ org.address # None <=> \E f \in AddressFields : lab_kwargs[f] # None
            /\ org.address # None =>
                  \A f \in AddressFields : Get(org.address)[f] = lab_kwargs[f]
            /\ org.contact # None <=> (lab_kwargs.email # None \/ lab_kwargs.phone # None)
            /\ org.contact # None =>
                  /\ Get(org.contact).email = lab_kwargs.email
                  /\ Get(org.contact).phone = lab_kwargs.phone

\* what the code does: the country code is carried only when one of street,
\* city, postal_code and country is supplied with it
C30_CountryCodeNeedsAnotherField ==
    pc = "lab_created" =>
        LET org == Get(lab_created)
        IN  /\ org.address # None
                  <=> \E f \in AddressFields \ {"country_code"} : lab_kwargs[f] # None
            /\ org.address # None =>
                  \A f \in AddressFields : Get(org.address)[f] = lab_kwargs[f]
            /\ org.contact # None <=> (lab_kwargs.email # None \/ lab_kwargs.phone # None)

\* the country code is the only address field supplied: there is no address
C30_CountryCodeDropped ==
    /\ pc = "lab_created"
    /\ lab_kwargs.country_code = Some(<<"D","E">>)
    /\ \A f \in AddressFields \ {"country_code"} : lab_kwargs[f] = None
    /\ Get(lab_created).address = None

=============================================================================
